---------------------------- MODULE Spec2Model ----------------------------
(***************************************************************************)
(* Model of StorageObjectStorageQueue (S3Queue / AzureQueue table engine): *)
(* the background streaming task (threadFunc, streamToViews, commit),      *)
(* direct SELECT (read), startup and shutdown, together with the           *)
(* coordinator (keeper) state, the blob store and the dependent views the  *)
(* engine works against.                                                   *)
(*                                                                         *)
(* One engine instance per replica.  Everything a replica keeps for the    *)
(* tick it is running is a function of the replica; the coordinator state  *)
(* and the blob store are shared by all replicas.                          *)
(*                                                                         *)
(* The file iterator, the sources (prepareCommitRequests, finalizeCommit)  *)
(* and the queue metadata are not part of StorageObjectStorageQueue.cpp;   *)
(* their behaviour is taken from the specification (sections 3, 4.3, 4.4). *)
(***************************************************************************)
EXTENDS Integers, Sequences, FiniteSets, TLC

\* ----------------------------------------------------------------- bounds
MaxRetries == 1     \* the value of the setting loading_retries
NumWorkers == 2     \* the value of the setting processing_threads_num
MaxViews == 2       \* dependent views a table has at most
MaxPathLen == 2     \* characters of the path given to CREATE, at most

\* ------------------------------------------------------ program constants
UnregisterThreshold == 5000   \* threadFunc: reschedule_processing_interval_ms > 5000

Replicas == {"r1", "r2"}
\* The objects of the blob store, by path; the listing order and the byte-lex
\* order of the paths are the order of the numbers.
Paths == {1, 2}
Processors == 0..(NumWorkers - 1)
None == "none"

\* Kinds of dependent views of the queue table, as getDependencies sees them:
\*   mv         a materialized view whose target table resolves
\*   mv_notarget a materialized view whose target table does not resolve
\*   view       a dependent view that is not a StorageMaterializedView
\*   missing    a dependency id that tryGetTable does not resolve
ViewKinds == {"mv", "mv_notarget", "view", "missing"}
ViewSets == {V \in SUBSET ViewKinds : Cardinality(V) <= MaxViews}

Modes == {"unordered", "ordered"}
Actions == {"keep", "delete"}

VARIABLES
    \* --- engine, per replica
    pc,                 \* position of the background task / tick ("idle": not running)
    scheduled,          \* the task is scheduled to run (activateAndSchedule, scheduleAfter)
    life,               \* "absent" (before the constructor), "created", "running" (after
                        \* startup), "stopping" (shutdown() waits in task->deactivate()),
                        \* "stopped" (shutdown() returned)
    mv_attached,        \* std::atomic<bool> mv_attached
    reschedule_ms,      \* reschedule_processing_interval_ms
    polling,            \* [min, max, backoff]: polling_{min,max}_timeout_ms, polling_backoff_ms
    dependencies_count, \* threadFunc's local
    total_rows,         \* streamToViews' local
    rows,               \* streamToViews' per-iteration counter
    iter_pos,           \* the file iterator: paths 1..iter_pos were already handed out or skipped
    inflight,           \* the sources' files of this iteration: records [path, proc, ok]
    insert_succeeded,   \* commit's argument
    requests,           \* commit's Coordination::Requests
    successful,         \* commit's successful_objects
    exc,                \* the exception in flight / caught by the tick ("none" if none)
    last_read,          \* outcome of the last direct SELECT
    \* --- table definition, per replica
    create_args,          \* the arguments of the constructor: [is_attach, mode_changed,
                        \* processing_threads_num, cleanup_interval_min_ms,
                        \* cleanup_interval_max_ms, path]
    configuration_path, \* configuration->getPath(), a sequence of characters
    settings_changes,   \* settings_changes of the in-memory metadata
    ddl_result,         \* outcome of the last CREATE / ATTACH / ALTER
    alter_pc,           \* position of the task when the last ALTER ran ("none" if none)
    \* --- settings kept in the engine and the threads that use them, per replica
    commit_settings,            \* CommitSettings: [max_processed_files_before_commit]
    list_objects_batch_size,
    enable_hash_ring_filtering,
    mutex,                \* the thread that holds the engine's mutex ("none" if free)
    thread_pc,            \* position of each thread with respect to the mutex
    alter_frame,          \* locals of the alter() that is running:
                          \* [changed_settings, new_settings]
    commit_settings_copy, \* the commit_settings_copy of each source that exists
    iterator_copy,        \* the copies held by the file iterator that exists:
                          \* [list_objects_batch_size, enable_hash_ring_filtering]
    \* --- history of the current iteration, per replica
    hist,               \* [threw, multis, finalized]: the pipeline threw, multi
                        \* transactions issued, sources whose finalizeCommit ran
    \* --- environment
    views,              \* dependent views of the replica's table
    failpoint,          \* FailPoints::object_storage_queue_fail_commit is enabled
    \* --- coordinator and blob store (shared)
    table_metadata,     \* [mode, after_processing, loading_retries, processing_threads_num]
    registered,         \* /registrations/<id>
    processing,         \* /processing/<path>: records [path, owner]
    processed,          \* /processed/<path>
    failed,             \* /failed/<path>
    retries,            \* retry counter per path
    watermark,          \* /buckets/0/path (ordered mode), 0 if none
    lease,              \* /buckets/0/lock (ordered mode)
    blob                \* the blob store: blob[p] iff object p exists

engine_vars == <<pc, scheduled, life, mv_attached, reschedule_ms, polling,
                 dependencies_count, total_rows, rows, iter_pos, inflight,
                 insert_succeeded, requests, successful, exc, last_read, hist>>
local_vars == <<commit_settings, list_objects_batch_size, enable_hash_ring_filtering,
                mutex, thread_pc, alter_frame, commit_settings_copy, iterator_copy>>
table_vars == <<create_args, configuration_path, settings_changes, ddl_result,
                alter_pc, local_vars>>
env_vars == <<views, failpoint>>
keeper_vars == <<table_metadata, registered, processing, processed, failed,
                 retries, watermark, lease, blob>>
vars == <<engine_vars, table_vars, env_vars, keeper_vars>>

\* ------------------------------------------------------------------ helpers
Min(a, b) == IF a <= b THEN a ELSE b

\* shutdown_called is set first thing in shutdown() (line 276)
shutdown_called(r) == life[r] \in {"stopping", "stopped"}

NoHist == [threw |-> FALSE, multis |-> 0, finalized |-> {}]

\* A getDependencies that counts only the materialized views with a target.
CountMaterializedViews(V) == Cardinality(V \cap {"mv"})

\* getDependencies(): 0 when there is no dependent view, when some dependent view
\* does not resolve, or when some materialized view has no target table;
\* otherwise the number of dependent views.
GetDependencies(V) ==
    IF V = {} THEN 0
    ELSE IF "missing" \in V THEN 0
    ELSE IF "mv_notarget" \in V THEN 0
    ELSE Cardinality(V)

\* read(): QUERY_NOT_ALLOWED unless stream_like_engine_allow_direct_select,
\* and QUERY_NOT_ALLOWED while mv_attached.
ReadResult(r, allow_direct_select) ==
    IF ~allow_direct_select THEN "refused"
    ELSE IF mv_attached[r] THEN "refused"
    ELSE "accepted"

\* ------------------------------------------------------------------ settings
\* A setting name is the sequence of its parts: <<"buckets">>, or
\* <<"s3queue_", "buckets">> for the name written with the compatibility
\* prefix.  A setting change is a record [name, value]; the settings_changes
\* of the table's in-memory metadata is a sequence of them.
S3QueuePrefix == "s3queue_"

\* The settings the ALTERs of the model name, one of each kind: never
\* changeable, changeable in unordered mode only, changeable in ordered mode
\* only (and only with detached views), changeable in both modes.
AlteredSettings ==
    {"cleanup_interval_min_ms", "processing_threads_num", "buckets",
     "polling_max_timeout_ms"}

\* std::set<std::string> iterates in the lexicographic order of the names.
SettingOrder ==
    <<"buckets", "cleanup_interval_min_ms", "polling_max_timeout_ms",
      "processing_threads_num">>

\* The values the model gives to a setting.
SettingValues(base) ==
    CASE base = "cleanup_interval_min_ms" -> {30000, 60000}
      [] base = "processing_threads_num" -> 1..NumWorkers
      [] base = "buckets" -> {0, 2}
      [] OTHER -> {1000, 5000}

\* ObjectStorageQueueSettings default_settings; default_settings.get(name).
DefaultValue(name) ==
    CASE name = <<"cleanup_interval_min_ms">> -> 60000
      [] name = <<"processing_threads_num">> -> 1
      [] name = <<"buckets">> -> 0
      [] name = <<"enable_hash_ring_filtering">> -> 0
      [] OTHER -> 10000

\* Lines 699-730.
changeable_settings_unordered_mode ==
    {"processing_threads_num", "loading_retries", "after_processing",
     "tracked_files_limit", "tracked_file_ttl_sec",
     "polling_min_timeout_ms", "polling_max_timeout_ms", "polling_backoff_ms",
     "max_processed_files_before_commit", "max_processed_rows_before_commit",
     "max_processed_bytes_before_commit", "max_processing_time_sec_before_commit",
     "enable_hash_ring_filtering", "list_objects_batch_size"}

changeable_settings_ordered_mode ==
    {"loading_retries", "after_processing",
     "polling_min_timeout_ms", "polling_max_timeout_ms", "polling_backoff_ms",
     "max_processed_files_before_commit", "max_processed_rows_before_commit",
     "max_processed_bytes_before_commit", "max_processing_time_sec_before_commit",
     "buckets", "list_objects_batch_size"}

starts_with_s3queue(name) == name # <<>> /\ Head(name) = S3QueuePrefix

\* A normalizeSetting that leaves the prefix in place.
NormalizeSettingKeepsPrefix(name) == name

\* Lines 732-738: strip the prefix s3queue_.
normalizeSetting(name) == IF starts_with_s3queue(name) THEN Tail(name) ELSE name

\* Lines 740-744: LOGICAL_ERROR unless the name is normalized.
checkNormalizedSetting(name) == ~starts_with_s3queue(name)

\* The value a SETTINGS clause gives to a setting: that of the last entry of
\* its name, with or without the prefix; the default if there is none.
RECURSIVE LoadedValue(_, _, _)
LoadedValue(changes, name, i) ==
    IF i = 0 THEN DefaultValue(name)
    ELSE IF normalizeSetting(changes[i].name) = name THEN changes[i].value
    ELSE LoadedValue(changes, name, i - 1)

\* isSettingChangeable with the set of unordered mode for every mode.
isSettingChangeableAnyMode(name, mode) ==
    /\ Len(name) = 1
    /\ name[1] \in changeable_settings_unordered_mode

\* Lines 746-754.
isSettingChangeable(name, mode) ==
    /\ Len(name) = 1
    /\ IF mode = "unordered"
         THEN name[1] \in changeable_settings_unordered_mode
         ELSE name[1] \in changeable_settings_ordered_mode

\* A requiresDetachedMV that no setting satisfies.
RequiresDetachedMVNever(name) == FALSE

\* Lines 756-760.
requiresDetachedMV(name) == name = <<"buckets">>

\* The outcome of a query: the error code of the exception it throws, with the
\* setting and the dependency count its message names, or OK.
QueryError(code, name, count) ==
    [code |-> code, setting |-> name, dependencies_count |-> count]

NoError == QueryError("OK", <<>>, 0)

\* Lines 829-850 and 939-958: the checks of one setting that is changed.
ChangedSettingError(name, mode, count) ==
    IF ~checkNormalizedSetting(name) THEN QueryError("LOGICAL_ERROR", name, 0)
    ELSE IF ~isSettingChangeable(name, mode)
      THEN QueryError("SUPPORT_IS_DISABLED", name, 0)
    ELSE IF requiresDetachedMV(name) /\ count > 0
      THEN QueryError("SUPPORT_IS_DISABLED", name, count)
    ELSE NoError

\* for (auto & setting : *old_settings) setting.name = normalizeSetting(setting.name)
NormalizeSettings(changes) ==
    [i \in DOMAIN changes |->
        [name |-> normalizeSetting(changes[i].name), value |-> changes[i].value]]

\* Lines 762-779: an alter command is [type, settings_changes, settings_resets].
normalizeAlterCommands(commands) ==
    [i \in DOMAIN commands |->
        [type |-> commands[i].type,
         settings_changes |-> NormalizeSettings(commands[i].settings_changes),
         settings_resets |-> {normalizeSetting(n) : n \in commands[i].settings_resets}]]

\* std::find_if over a list of changes: the first entry of that name, 0 if none.
FindSetting(changes, name) ==
    IF \E i \in DOMAIN changes : changes[i].name = name
      THEN CHOOSE i \in DOMAIN changes :
               /\ changes[i].name = name
               /\ \A j \in DOMAIN changes : changes[j].name = name => i <= j
      ELSE 0

\* AlterCommand::apply, MODIFY_SETTING: a change replaces the value of the
\* first entry of its name, or is appended.
ApplyChange(changes, change) ==
    LET i == FindSetting(changes, change.name) IN
    IF i = 0 THEN Append(changes, change)
    ELSE [changes EXCEPT ![i].value = change.value]

RECURSIVE ApplyChanges(_, _)
ApplyChanges(changes, modified) ==
    IF modified = <<>> THEN changes
    ELSE ApplyChanges(ApplyChange(changes, Head(modified)), Tail(modified))

\* AlterCommand::apply, RESET_SETTING: the first entry of the name is erased.
EraseSetting(changes, name) ==
    LET i == FindSetting(changes, name) IN
    IF i = 0 THEN changes
    ELSE SubSeq(changes, 1, i - 1) \o SubSeq(changes, i + 1, Len(changes))

RECURSIVE EraseSettings(_, _)
EraseSettings(changes, names) ==
    IF names = {} THEN changes
    ELSE LET n == CHOOSE x \in names : TRUE
         IN  EraseSettings(EraseSetting(changes, n), names \ {n})

\* AlterCommands::apply on the settings_changes of the metadata.
RECURSIVE ApplyCommands(_, _)
ApplyCommands(changes, commands) ==
    IF commands = <<>> THEN changes
    ELSE LET c == Head(commands)
             applied == CASE c.type = "MODIFY_SETTING" ->
                                ApplyChanges(changes, c.settings_changes)
                          [] c.type = "RESET_SETTING" ->
                                EraseSettings(changes, c.settings_resets)
                          [] OTHER -> changes
         IN  ApplyCommands(applied, Tail(commands))

\* A checkAlterIsPossible for which no setting counts as changed.
CheckNewSettingsNothingChanged(new_settings, old_settings, i, mode, count) == NoError

\* Lines 813-852: the loop of checkAlterIsPossible over new_settings from
\* position i on; a setting counts as changed when old_settings has an entry
\* of its name with another value.
RECURSIVE CheckNewSettings(_, _, _, _, _)
CheckNewSettings(new_settings, old_settings, i, mode, count) ==
    IF i > Len(new_settings) THEN NoError
    ELSE LET setting == new_settings[i]
             it == FindSetting(old_settings, setting.name)
             setting_changed == it # 0 /\ old_settings[it].value # setting.value
             error == IF setting_changed
                        THEN ChangedSettingError(setting.name, mode, count)
                        ELSE NoError
         IN  IF error # NoError THEN error
             ELSE CheckNewSettings(new_settings, old_settings, i + 1, mode, count)

\* An isSettingsAlter that every list of commands satisfies.
AnyCommandsAlter(commands) == TRUE

\* AlterCommands::isSettingsAlter
isSettingsAlter(commands) ==
    \A i \in DOMAIN commands : commands[i].type \in {"MODIFY_SETTING", "RESET_SETTING"}

\* Lines 781-853, for the table of replica r.
checkAlterIsPossible(r, commands) ==
    IF ~isSettingsAlter(commands) THEN QueryError("SUPPORT_IS_DISABLED", <<>>, 0)
    ELSE LET old_settings == NormalizeSettings(settings_changes[r])
             new_settings == ApplyCommands(old_settings, normalizeAlterCommands(commands))
         IN  CheckNewSettings(new_settings, old_settings, 1, table_metadata.mode,
                              GetDependencies(views[r]))

\* A get_names that throws LOGICAL_ERROR for a duplicate.
DuplicatedSettingLogicalError(changes) ==
    IF \E i, j \in DOMAIN changes : i < j /\ changes[i].name = changes[j].name
      THEN LET j == CHOOSE y \in DOMAIN changes :
                        /\ \E i \in 1..(y - 1) : changes[i].name = changes[y].name
                        /\ \A z \in 1..(y - 1) :
                               ~\E i \in 1..(z - 1) : changes[i].name = changes[z].name
           IN  QueryError("LOGICAL_ERROR", changes[j].name, 0)
      ELSE NoError

\* Lines 881-891, get_names: the exception of the first name that is inserted
\* twice.
DuplicatedSetting(changes) ==
    IF \E i, j \in DOMAIN changes : i < j /\ changes[i].name = changes[j].name
      THEN LET j == CHOOSE y \in DOMAIN changes :
                        /\ \E i \in 1..(y - 1) : changes[i].name = changes[y].name
                        /\ \A z \in 1..(y - 1) :
                               ~\E i \in 1..(z - 1) : changes[i].name = changes[z].name
           IN  QueryError("BAD_ARGUMENTS", changes[j].name, 0)
      ELSE NoError

SettingNames(changes) == {changes[i].name : i \in DOMAIN changes}

\* Lines 909-911: the reset settings are pushed with their default values, in
\* the order of the std::set.
RECURSIVE PushDefaults(_, _, _)
PushDefaults(changes, names, k) ==
    IF k > Len(SettingOrder) THEN changes
    ELSE IF <<SettingOrder[k]>> \in names
      THEN PushDefaults(Append(changes, [name |-> <<SettingOrder[k]>>,
                                         value |-> DefaultValue(<<SettingOrder[k]>>)]),
                        names, k + 1)
      ELSE PushDefaults(changes, names, k + 1)

\* Lines 915-961: the loop of alter over new_settings from position i on;
\* a setting counts as changed when old_settings has no entry of its name or
\* one with another value.  The result is [error, changed_settings].
RECURSIVE AlterNewSettings(_, _, _, _, _, _)
AlterNewSettings(new_settings, old_settings, i, mode, count, changed_settings) ==
    IF i > Len(new_settings)
      THEN [error |-> NoError, changed_settings |-> changed_settings]
    ELSE LET setting == new_settings[i]
             inserted == ~\E j \in 1..(i - 1) : new_settings[j].name = setting.name
             it == FindSetting(old_settings, setting.name)
             setting_changed == it = 0 \/ old_settings[it].value # setting.value
             error == IF ~inserted THEN QueryError("BAD_ARGUMENTS", setting.name, 0)
                      ELSE IF setting_changed
                        THEN ChangedSettingError(setting.name, mode, count)
                      ELSE NoError
         IN  IF error # NoError
               THEN [error |-> error, changed_settings |-> <<>>]
               ELSE AlterNewSettings(new_settings, old_settings, i + 1, mode, count,
                        IF setting_changed THEN Append(changed_settings, setting)
                        ELSE changed_settings)

\* Lines 855-961, for the table of replica r: the exception alter throws, the
\* settings it changes and the settings_changes of the new metadata.
alter(r, commands) ==
    LET old_settings == NormalizeSettings(settings_changes[r])
        applied == ApplyCommands(old_settings, normalizeAlterCommands(commands))
        reset_settings == SettingNames(old_settings) \ SettingNames(applied)
        new_settings == PushDefaults(applied, reset_settings, 1)
        checked == AlterNewSettings(new_settings, old_settings, 1, table_metadata.mode,
                                    GetDependencies(views[r]), <<>>)
        unchanged == [error |-> NoError, changed_settings |-> <<>>,
                      new_settings |-> settings_changes[r]]
    IN  IF ~isSettingsAlter(commands) THEN unchanged
        ELSE IF DuplicatedSetting(old_settings) # NoError
          THEN [unchanged EXCEPT !.error = DuplicatedSetting(old_settings)]
        ELSE IF DuplicatedSetting(applied) # NoError
          THEN [unchanged EXCEPT !.error = DuplicatedSetting(applied)]
        ELSE IF checked.error # NoError
          THEN [unchanged EXCEPT !.error = checked.error]
        ELSE [error |-> NoError, changed_settings |-> checked.changed_settings,
              new_settings |-> new_settings]

\* ---------------------------------------------------------------------- Init
InitKeeper(retry_settings) ==
    /\ table_metadata \in [mode : Modes, after_processing : Actions,
                            loading_retries : retry_settings,
                            processing_threads_num : {NumWorkers}]
    /\ registered = [r \in Replicas |-> FALSE]
    /\ processing = {}
    /\ processed = {}
    /\ failed = {}
    /\ retries = [p \in Paths |-> 0]
    /\ watermark = 0
    /\ lease = None
    /\ blob = [p \in Paths |-> TRUE]

\* The CREATE of the tables of the model: path '/', SETTINGS mode = ...,
\* processing_threads_num = ..., polling_max_timeout_ms = ...
CreateArgs ==
    [is_attach |-> FALSE, mode_changed |-> TRUE,
     processing_threads_num |-> NumWorkers,
     cleanup_interval_min_ms |-> 60000, cleanup_interval_max_ms |-> 60000,
     path |-> <<"/">>]

CreateSettings(polling_settings) ==
    <<[name |-> <<"processing_threads_num">>, value |-> NumWorkers],
      [name |-> <<"polling_max_timeout_ms">>, value |-> polling_settings.max]>>

\* The threads that use the engine's mutex: an ALTER query, the background
\* task and a query that reads the settings of the table.
Threads == {"alter", "task", "system"}

\* No alter() is running.
NoFrame == [changed_settings |-> <<>>, new_settings |-> <<>>]

\* Lines 198-207: the constructor takes the settings kept in the engine from
\* the SETTINGS clause; no thread holds the mutex, no source or iterator exists.
InitLocal(changes) ==
    /\ commit_settings = [r \in Replicas |->
           [max_processed_files_before_commit |->
                LoadedValue(changes, <<"max_processed_files_before_commit">>,
                            Len(changes))]]
    /\ list_objects_batch_size = [r \in Replicas |->
           LoadedValue(changes, <<"list_objects_batch_size">>, Len(changes))]
    /\ enable_hash_ring_filtering = [r \in Replicas |->
           LoadedValue(changes, <<"enable_hash_ring_filtering">>, Len(changes)) # 0]
    /\ mutex = [r \in Replicas |-> None]
    /\ thread_pc = [r \in Replicas |-> [t \in Threads |-> "idle"]]
    /\ alter_frame = [r \in Replicas |-> NoFrame]
    /\ commit_settings_copy = [r \in Replicas |-> <<>>]
    /\ iterator_copy = [r \in Replicas |-> <<>>]

\* The table definition every replica starts from: constructor arguments,
\* path of the configuration, settings_changes of the metadata (lines
\* 240-243) and the outcome of the CREATE.
InitTable(args, path, changes, result) ==
    /\ create_args = [r \in Replicas |-> args]
    /\ configuration_path = [r \in Replicas |-> path]
    /\ settings_changes = [r \in Replicas |-> changes]
    /\ ddl_result = [r \in Replicas |-> result]
    /\ alter_pc = [r \in Replicas |-> "none"]
    /\ InitLocal(changes)

\* The state after the constructor: the task is created but not scheduled,
\* reschedule_processing_interval_ms = polling_min_timeout_ms (line 208).
InitEngine(polling_settings) ==
    /\ pc = [r \in Replicas |-> "idle"]
    /\ scheduled = [r \in Replicas |-> FALSE]
    /\ life = [r \in Replicas |-> "created"]
    /\ mv_attached = [r \in Replicas |-> FALSE]
    /\ polling = [r \in Replicas |-> polling_settings]
    /\ reschedule_ms = [r \in Replicas |-> polling[r].min]
    /\ dependencies_count = [r \in Replicas |-> 0]
    /\ total_rows = [r \in Replicas |-> 0]
    /\ rows = [r \in Replicas |-> 0]
    /\ iter_pos = [r \in Replicas |-> 0]
    /\ inflight = [r \in Replicas |-> {}]
    /\ insert_succeeded = [r \in Replicas |-> TRUE]
    /\ requests = [r \in Replicas |-> <<>>]
    /\ successful = [r \in Replicas |-> {}]
    /\ exc = [r \in Replicas |-> None]
    /\ last_read = [r \in Replicas |-> None]
    /\ hist = [r \in Replicas |-> NoHist]

\* ------------------------------------------- coordinator: claim and commit ops
\* (file iterator and sources; behaviour from the specification, 4.3 and 4.4)

\* A claim that does not fail with NodeExists on another replica's record.
CanClaimOverNodeExists(r, p) ==
    /\ blob[p]
    /\ p \notin failed
    /\ IF table_metadata.mode = "unordered"
          THEN p \notin processed
          ELSE p > watermark /\ lease \in {None, r}

\* The claim of path p by replica r succeeds: the object is listed, no other
\* replica holds a Processing record (create fails with NodeExists: skip; the
\* replay of r's own claim is a no-op), the file is neither Processed nor
\* Failed, and in ordered mode it is above the watermark and the bucket lease
\* is free or r's.
CanClaim(r, p) ==
    /\ blob[p]
    /\ ~\E rec \in processing : rec.path = p /\ rec.owner # r
    /\ p \notin failed
    /\ IF table_metadata.mode = "unordered"
          THEN p \notin processed
          ELSE p > watermark /\ lease \in {None, r}

\* prepareCommitRequests, per file: Processing -> Processed (or the watermark
\* bumped to the path) when the file and the insert succeeded; otherwise back
\* to unprocessed with the retry counter incremented while retries remain,
\* else Failed.
FileOp(f, insert_ok) ==
    [type |-> IF f.ok /\ insert_ok THEN "processed"
              ELSE IF retries[f.path] < table_metadata.loading_retries THEN "retry"
              ELSE "failed",
     path |-> f.path]

\* The requests of one source: its files in the order it took them from the
\* iterator (ascending paths).
RECURSIVE SourceRequests(_, _)
SourceRequests(files, insert_ok) ==
    IF files = {} THEN <<>>
    ELSE LET f == CHOOSE x \in files : \A y \in files : x.path <= y.path
         IN  <<FileOp(f, insert_ok)>> \o SourceRequests(files \ {f}, insert_ok)

\* A commit that gathers the requests of the first source only.
PrepareFirstSourceOnly(files, i, insert_ok) ==
    SourceRequests({f \in files : f.proc = 0}, insert_ok)

\* commit(), lines 653-656: for (auto & source : sources)
\*     source->prepareCommitRequests(requests, insert_succeeded, successful_objects, ...)
RECURSIVE PrepareCommitRequests(_, _, _)
PrepareCommitRequests(files, i, insert_ok) ==
    IF i >= table_metadata.processing_threads_num THEN <<>>
    ELSE SourceRequests({f \in files : f.proc = i}, insert_ok)
         \o PrepareCommitRequests(files, i + 1, insert_ok)

SuccessfulObjects(reqs) ==
    {reqs[k].path : k \in {j \in DOMAIN reqs : reqs[j].type = "processed"}}

\* A commit that leaves the after-processing action out.
NoObjectsToRemove(succ) == {}

\* A commit that removes the successful objects whatever the after-processing
\* action of the table is.
ObjectsToRemoveAlways(succ) == succ

\* commit(), lines 666-673: the objects removed from the blob store before
\* the requests are committed to keeper.
ObjectsToRemove(succ) ==
    IF succ # {} /\ table_metadata.after_processing = "delete" THEN succ ELSE {}

\* Every request of a multi checks the Processing record it resolves; in
\* ordered mode the bucket lease as well.
MultiValid(r, reqs) ==
    /\ \A k \in DOMAIN reqs : [path |-> reqs[k].path, owner |-> r] \in processing
    /\ table_metadata.mode = "ordered" => lease = r

\* The file is Processed: it has a Processed record (unordered) or it is not
\* above the watermark of its bucket (ordered).
IsProcessed(p) ==
    IF table_metadata.mode = "unordered" THEN p \in processed ELSE p <= watermark

KeeperFiles == [processing |-> processing, processed |-> processed, failed |-> failed,
                retries |-> retries, watermark |-> watermark]

\* A Processed request that overwrites the coordinator's progress instead of
\* adding to it.
ApplyRequestOverwrites(k, r, op) ==
    LET without == k.processing \ {[path |-> op.path, owner |-> r]} IN
    CASE op.type = "processed" ->
           IF table_metadata.mode = "unordered"
             THEN [k EXCEPT !.processing = without, !.processed = {op.path}]
             ELSE [k EXCEPT !.processing = without, !.watermark = op.path]
      [] op.type = "retry" ->
           [k EXCEPT !.processing = without, !.retries[op.path] = @ + 1]
      [] OTHER ->
           [k EXCEPT !.processing = without, !.failed = @ \cup {op.path}]

ApplyRequest(k, r, op) ==
    LET without == k.processing \ {[path |-> op.path, owner |-> r]} IN
    CASE op.type = "processed" ->
           IF table_metadata.mode = "unordered"
             THEN [k EXCEPT !.processing = without, !.processed = @ \cup {op.path}]
             ELSE [k EXCEPT !.processing = without,
                            !.watermark = IF op.path > @ THEN op.path ELSE @]
      [] op.type = "retry" ->
           [k EXCEPT !.processing = without, !.retries[op.path] = @ + 1]
      [] OTHER ->
           [k EXCEPT !.processing = without, !.failed = @ \cup {op.path}]

\* The effect of a successful multi: the requests applied in order, atomically.
RECURSIVE ApplyRequests(_, _, _)
ApplyRequests(k, r, reqs) ==
    IF reqs = <<>> THEN k
    ELSE ApplyRequests(ApplyRequest(k, r, Head(reqs)), r, Tail(reqs))

\* ----------------------------------------------- engine: constructor, alter
PathChars == {"a", "/", "*"}

\* configuration->isPathWithGlobs(): the path has a glob character.
isPathWithGlobs(path) == \E i \in DOMAIN path : path[i] \in {"*", "?", "{"}

\* A constructor that rejects the empty path like any path without globs.
ConstructorPathEmptyRejected(path) ==
    IF path # <<>> /\ path[Len(path)] = "/"
      THEN [error |-> NoError, path |-> path \o <<"*">>]
    ELSE IF ~isPathWithGlobs(path)
      THEN [error |-> QueryError("BAD_QUERY_PARAMETER", <<>>, 0), path |-> path]
    ELSE [error |-> NoError, path |-> path]

\* Lines 211-222: the path the constructor leaves in the configuration, or
\* BAD_QUERY_PARAMETER.
ConstructorPath(path) ==
    IF path = <<>> THEN [error |-> NoError, path |-> <<"/", "*">>]
    ELSE IF path[Len(path)] = "/" THEN [error |-> NoError, path |-> path \o <<"*">>]
    ELSE IF ~isPathWithGlobs(path)
      THEN [error |-> QueryError("BAD_QUERY_PARAMETER", <<>>, 0), path |-> path]
    ELSE [error |-> NoError, path |-> path]

\* A validateSettings that requires mode on attach as well.
ValidateSettingsModeAlways(args) ==
    IF ~args.mode_changed THEN QueryError("BAD_ARGUMENTS", <<"mode">>, 0)
    ELSE IF args.processing_threads_num = 0
      THEN QueryError("BAD_ARGUMENTS", <<"processing_threads_num">>, 0)
    ELSE IF args.cleanup_interval_min_ms > args.cleanup_interval_max_ms
      THEN QueryError("BAD_ARGUMENTS", <<"cleanup_interval_min_ms">>, 0)
    ELSE NoError

\* Lines 129-150.
validateSettings(args) ==
    IF ~args.is_attach /\ ~args.mode_changed
      THEN QueryError("BAD_ARGUMENTS", <<"mode">>, 0)
    ELSE IF args.processing_threads_num = 0
      THEN QueryError("BAD_ARGUMENTS", <<"processing_threads_num">>, 0)
    ELSE IF args.cleanup_interval_min_ms > args.cleanup_interval_max_ms
      THEN QueryError("BAD_ARGUMENTS", <<"cleanup_interval_min_ms">>, 0)
    ELSE NoError

\* No query has been run on the table yet.
NoQuery == QueryError("NONE", <<>>, 0)

\* Lines 178-261: the constructor, run once with the arguments of the CREATE
\* or ATTACH.  The path is normalized in the configuration before the settings
\* are validated; the table exists when neither throws.
Constructor(r) ==
    /\ life[r] = "absent"
    /\ ddl_result[r] = NoQuery
    /\ LET checked == ConstructorPath(create_args[r].path)
           error == IF checked.error # NoError THEN checked.error
                    ELSE validateSettings(create_args[r])
       IN  /\ configuration_path' = [configuration_path EXCEPT ![r] = checked.path]
           /\ ddl_result' = [ddl_result EXCEPT ![r] = error]
           /\ life' = [life EXCEPT ![r] = IF error = NoError THEN "created" ELSE @]
    /\ UNCHANGED <<pc, scheduled, mv_attached, reschedule_ms, polling,
                   dependencies_count, total_rows, rows, iter_pos, inflight,
                   insert_succeeded, requests, successful, exc, last_read, hist>>
    /\ UNCHANGED <<create_args, settings_changes, alter_pc, local_vars>>
    /\ UNCHANGED <<env_vars, keeper_vars>>

\* files_metadata->alterSettings(changed_settings): the settings kept in the
\* coordinator's table metadata take their new values.
RECURSIVE alterSettings(_, _)
alterSettings(metadata, changed_settings) ==
    IF changed_settings = <<>> THEN metadata
    ELSE LET change == Head(changed_settings)
             altered ==
                 CASE change.name = <<"processing_threads_num">> ->
                        [metadata EXCEPT !.processing_threads_num = change.value]
                   [] change.name = <<"loading_retries">> ->
                        [metadata EXCEPT !.loading_retries = change.value]
                   [] OTHER -> metadata
         IN  alterSettings(altered, Tail(changed_settings))

\* An alter that leaves the engine's polling_max_timeout_ms as it is.
AlterLocalSettingsKeepsMax(local, changed_settings) ==
    [local EXCEPT !.max = local.max]

\* Lines 969-993: the settings kept in the engine take their new values.
RECURSIVE AlterLocalSettings(_, _)
AlterLocalSettings(local, changed_settings) ==
    IF changed_settings = <<>> THEN local
    ELSE LET change == Head(changed_settings)
             altered ==
                 CASE change.name = <<"polling_min_timeout_ms">> ->
                        [local EXCEPT !.min = change.value]
                   [] change.name = <<"polling_max_timeout_ms">> ->
                        [local EXCEPT !.max = change.value]
                   [] change.name = <<"polling_backoff_ms">> ->
                        [local EXCEPT !.backoff = change.value]
                   [] OTHER -> local
         IN  AlterLocalSettings(altered, Tail(changed_settings))

\* The settings of replica r that alter keeps in the engine besides the
\* polling ones.
EngineSettings(r) ==
    [commit_settings |-> commit_settings[r],
     list_objects_batch_size |-> list_objects_batch_size[r],
     enable_hash_ring_filtering |-> enable_hash_ring_filtering[r]]

\* Lines 980-992: the commit thresholds, the list batch size and the
\* hash-ring flag take their new values.
RECURSIVE AlterEngineSettings(_, _)
AlterEngineSettings(local, changed_settings) ==
    IF changed_settings = <<>> THEN local
    ELSE LET change == Head(changed_settings)
             altered ==
                 CASE change.name = <<"max_processed_files_before_commit">> ->
                        [local EXCEPT
                            !.commit_settings.max_processed_files_before_commit =
                                change.value]
                   [] change.name = <<"list_objects_batch_size">> ->
                        [local EXCEPT !.list_objects_batch_size = change.value]
                   [] change.name = <<"enable_hash_ring_filtering">> ->
                        [local EXCEPT !.enable_hash_ring_filtering = change.value # 0]
                   [] OTHER -> local
         IN  AlterEngineSettings(altered, Tail(changed_settings))

\* The assignments of lines 980-992 to the fields of replica r.
AlterEngine(r, changed_settings) ==
    LET altered == AlterEngineSettings(EngineSettings(r), changed_settings) IN
    /\ commit_settings' = [commit_settings EXCEPT ![r] = altered.commit_settings]
    /\ list_objects_batch_size' =
           [list_objects_batch_size EXCEPT ![r] = altered.list_objects_batch_size]
    /\ enable_hash_ring_filtering' =
           [enable_hash_ring_filtering EXCEPT ![r] = altered.enable_hash_ring_filtering]

\* The exception of an ALTER query on the table of replica r: that of
\* checkAlterIsPossible, else that of alter.
AlterError(r, commands) ==
    LET check == checkAlterIsPossible(r, commands)
    IN  IF check # NoError THEN check ELSE alter(r, commands).error

\* An ALTER that assigns the engine's fields from its first command before
\* the settings are checked.
AlterQueryAssignsFirst(r, commands) ==
    /\ life[r] = "running"
    /\ ddl_result' = [ddl_result EXCEPT ![r] = AlterError(r, commands)]
    /\ alter_pc' = [alter_pc EXCEPT ![r] = pc[r]]
    /\ polling' = [polling EXCEPT ![r] =
           AlterLocalSettings(@, NormalizeSettings(commands[1].settings_changes))]
    /\ UNCHANGED <<table_metadata, settings_changes, commit_settings,
                   list_objects_batch_size, enable_hash_ring_filtering>>
    /\ UNCHANGED <<pc, scheduled, life, mv_attached, reschedule_ms,
                   dependencies_count, total_rows, rows, iter_pos, inflight,
                   insert_succeeded, requests, successful, exc, last_read, hist>>
    /\ UNCHANGED <<create_args, configuration_path>>
    /\ UNCHANGED <<mutex, thread_pc, alter_frame, commit_settings_copy, iterator_copy>>
    /\ UNCHANGED <<env_vars, registered, processing, processed, failed,
                   retries, watermark, lease, blob>>

\* An ALTER query on the started table of replica r: checkAlterIsPossible,
\* then alter (lines 855-998).  When either throws nothing is changed.
AlterQuery(r, commands) ==
    /\ life[r] = "running"
    /\ LET outcome == alter(r, commands)
           error == AlterError(r, commands)
       IN  /\ ddl_result' = [ddl_result EXCEPT ![r] = error]
           /\ alter_pc' = [alter_pc EXCEPT ![r] = pc[r]]
           /\ IF error = NoError
                THEN /\ table_metadata' =
                            alterSettings(table_metadata, outcome.changed_settings)
                     /\ polling' = [polling EXCEPT ![r] =
                            AlterLocalSettings(@, outcome.changed_settings)]
                     /\ AlterEngine(r, outcome.changed_settings)
                     /\ settings_changes' =
                            [settings_changes EXCEPT ![r] = outcome.new_settings]
                ELSE UNCHANGED <<table_metadata, polling, settings_changes,
                                 commit_settings, list_objects_batch_size,
                                 enable_hash_ring_filtering>>
    /\ UNCHANGED <<pc, scheduled, life, mv_attached, reschedule_ms,
                   dependencies_count, total_rows, rows, iter_pos, inflight,
                   insert_succeeded, requests, successful, exc, last_read, hist>>
    /\ UNCHANGED <<create_args, configuration_path>>
    /\ UNCHANGED <<mutex, thread_pc, alter_frame, commit_settings_copy, iterator_copy>>
    /\ UNCHANGED <<env_vars, registered, processing, processed, failed,
                   retries, watermark, lease, blob>>

\* ------------------------------------------------------- engine: lifecycle
\* startup(), lines 263-271: register the metadata, task->activateAndSchedule().
Startup(r) ==
    /\ life[r] = "created"
    /\ life' = [life EXCEPT ![r] = "running"]
    /\ scheduled' = [scheduled EXCEPT ![r] = TRUE]
    /\ UNCHANGED <<pc, mv_attached, reschedule_ms, polling, dependencies_count,
                   total_rows, rows, iter_pos, inflight, insert_succeeded,
                   requests, successful, exc, last_read, hist>>
    /\ UNCHANGED <<env_vars, keeper_vars>>
    /\ UNCHANGED table_vars

\* shutdown(), lines 273-282: shutdown_called = true, then task->deactivate(),
\* which blocks until the tick that is running has returned.
ShutdownRequest(r) ==
    /\ life[r] = "running"
    /\ life' = [life EXCEPT ![r] = "stopping"]
    /\ UNCHANGED <<pc, scheduled, mv_attached, reschedule_ms, polling,
                   dependencies_count, total_rows, rows, iter_pos, inflight,
                   insert_succeeded, requests, successful, exc, last_read, hist>>
    /\ UNCHANGED <<env_vars, keeper_vars>>
    /\ UNCHANGED table_vars

\* The storage holds the queue-metadata handle files_metadata: from startup()
\* (line 267) until shutdown() resets it (line 296).
files_metadata(r) == life[r] \in {"running", "stopping"}

\* A shutdown whose deactivate() does not wait for the tick that is running.
ShutdownFinishNoWait(r) ==
    /\ life[r] = "stopping"
    /\ life' = [life EXCEPT ![r] = "stopped"]
    /\ scheduled' = [scheduled EXCEPT ![r] = FALSE]
    /\ registered' = [registered EXCEPT ![r] = FALSE]
    /\ UNCHANGED <<pc, mv_attached, reschedule_ms, polling, dependencies_count,
                   total_rows, rows, iter_pos, inflight, insert_succeeded,
                   requests, successful, exc, last_read, hist>>
    /\ UNCHANGED <<env_vars, table_metadata, processing, processed, failed,
                   retries, watermark, lease, blob>>
    /\ UNCHANGED table_vars

\* shutdown(), lines 281-298: deactivate() returns (no tick is running, the task
\* is no longer scheduled), files_metadata->unregister, files_metadata.reset().
ShutdownFinish(r) ==
    /\ life[r] = "stopping"
    /\ pc[r] = "idle"
    /\ life' = [life EXCEPT ![r] = "stopped"]
    /\ scheduled' = [scheduled EXCEPT ![r] = FALSE]
    /\ registered' = [registered EXCEPT ![r] = FALSE]
    /\ UNCHANGED <<pc, mv_attached, reschedule_ms, polling, dependencies_count,
                   total_rows, rows, iter_pos, inflight, insert_succeeded,
                   requests, successful, exc, last_read, hist>>
    /\ UNCHANGED <<env_vars, table_metadata, processing, processed, failed,
                   retries, watermark, lease, blob>>
    /\ UNCHANGED table_vars

\* read(), lines 369-405.
Read(r, allow_direct_select) ==
    /\ life[r] = "running"
    /\ last_read' = [last_read EXCEPT ![r] = ReadResult(r, allow_direct_select)]
    /\ UNCHANGED <<pc, scheduled, life, mv_attached, reschedule_ms, polling,
                   dependencies_count, total_rows, rows, iter_pos, inflight,
                   insert_succeeded, requests, successful, exc, hist>>
    /\ UNCHANGED <<env_vars, keeper_vars>>
    /\ UNCHANGED table_vars

\* ------------------------------------------------------ engine: threadFunc
\* Lines 487-499 and 520-523: the scheduled task starts a tick.  With
\* shutdown_called it returns at once; otherwise it counts the dependencies
\* and either enters the streaming branch (mv_attached = true) or goes to the
\* rescheduling at the end of the function.
ThreadFuncBranch(r, count) ==
    IF count > 0
      THEN /\ mv_attached' = [mv_attached EXCEPT ![r] = TRUE]
           /\ pc' = [pc EXCEPT ![r] = "register"]
      ELSE /\ pc' = [pc EXCEPT ![r] = "resched"]
           /\ UNCHANGED mv_attached

TickStart(r) ==
    /\ pc[r] = "idle"
    /\ scheduled[r]
    /\ scheduled' = [scheduled EXCEPT ![r] = FALSE]
    /\ IF shutdown_called(r)
         THEN UNCHANGED <<pc, mv_attached, dependencies_count, exc>>
         ELSE /\ dependencies_count' =
                    [dependencies_count EXCEPT ![r] = GetDependencies(views[r])]
              /\ exc' = [exc EXCEPT ![r] = None]
              /\ ThreadFuncBranch(r, GetDependencies(views[r]))
    /\ UNCHANGED <<life, reschedule_ms, polling, total_rows, rows, iter_pos,
                   inflight, insert_succeeded, requests, successful, last_read, hist>>
    /\ UNCHANGED <<env_vars, keeper_vars>>
    /\ UNCHANGED table_vars

\* A catch that leaves mv_attached as the streaming branch set it.
CatchInTickKeepsFlag(r, e) ==
    /\ exc' = [exc EXCEPT ![r] = e]
    /\ UNCHANGED mv_attached
    /\ pc' = [pc EXCEPT ![r] = "resched"]
    /\ total_rows' = [total_rows EXCEPT ![r] = 0]
    /\ rows' = [rows EXCEPT ![r] = 0]
    /\ iter_pos' = [iter_pos EXCEPT ![r] = 0]
    /\ inflight' = [inflight EXCEPT ![r] = {}]
    /\ requests' = [requests EXCEPT ![r] = <<>>]
    /\ successful' = [successful EXCEPT ![r] = {}]

\* The catch (...) of threadFunc, lines 525-528, reached from inside the
\* streaming branch: SCOPE_EXIT resets mv_attached, the exception is logged,
\* the locals of streamToViews are gone.
CatchInTick(r, e) ==
    /\ exc' = [exc EXCEPT ![r] = e]
    /\ mv_attached' = [mv_attached EXCEPT ![r] = FALSE]
    /\ pc' = [pc EXCEPT ![r] = "resched"]
    /\ total_rows' = [total_rows EXCEPT ![r] = 0]
    /\ rows' = [rows EXCEPT ![r] = 0]
    /\ iter_pos' = [iter_pos EXCEPT ![r] = 0]
    /\ inflight' = [inflight EXCEPT ![r] = {}]
    /\ requests' = [requests EXCEPT ![r] = <<>>]
    /\ successful' = [successful EXCEPT ![r] = {}]

\* Line 503: files_metadata->registerIfNot(storage_id, /* active */true).
RegisterOk(r) ==
    /\ pc[r] = "register"
    /\ registered' = [registered EXCEPT ![r] = TRUE]
    /\ pc' = [pc EXCEPT ![r] = "stream"]
    /\ UNCHANGED <<scheduled, life, mv_attached, reschedule_ms, polling,
                   dependencies_count, total_rows, rows, iter_pos, inflight,
                   insert_succeeded, requests, successful, exc, last_read, hist>>
    /\ UNCHANGED <<env_vars, table_metadata, processing, processed, failed,
                   retries, watermark, lease, blob>>
    /\ UNCHANGED table_vars

\* A tick that streams although the registration failed.
RegisterThrowsIgnored(r) ==
    /\ pc[r] = "register"
    /\ pc' = [pc EXCEPT ![r] = "stream"]
    /\ UNCHANGED <<scheduled, life, mv_attached, reschedule_ms, polling,
                   dependencies_count, total_rows, rows, iter_pos, inflight,
                   insert_succeeded, requests, successful, exc, last_read, hist>>
    /\ UNCHANGED <<env_vars, keeper_vars>>
    /\ UNCHANGED table_vars

\* Line 503 throws (the coordinator is not reachable).
RegisterThrows(r) ==
    /\ pc[r] = "register"
    /\ CatchInTick(r, "register")
    /\ UNCHANGED <<scheduled, life, reschedule_ms, polling, dependencies_count,
                   insert_succeeded, last_read, hist>>
    /\ UNCHANGED <<env_vars, keeper_vars>>
    /\ UNCHANGED table_vars

\* A rescheduling that never removes the registration.
RescheduleKeepsRegistration(r) ==
    IF ~shutdown_called(r)
      THEN /\ scheduled' = [scheduled EXCEPT ![r] = TRUE]
           /\ UNCHANGED registered
      ELSE UNCHANGED <<scheduled, registered>>

\* Lines 530-546: unless shutdown_called, reschedule the task after
\* reschedule_processing_interval_ms and unregister the replica when the
\* interval exceeds 5000 ms.
Reschedule(r) ==
    IF ~shutdown_called(r)
      THEN /\ scheduled' = [scheduled EXCEPT ![r] = TRUE]
           /\ registered' = [registered EXCEPT ![r] =
                  IF reschedule_ms[r] > UnregisterThreshold THEN FALSE ELSE @]
      ELSE UNCHANGED <<scheduled, registered>>

TickEnd(r) ==
    /\ pc[r] = "resched"
    /\ Reschedule(r)
    /\ pc' = [pc EXCEPT ![r] = "idle"]
    /\ hist' = [hist EXCEPT ![r] = NoHist]
    /\ exc' = [exc EXCEPT ![r] = None]
    /\ dependencies_count' = [dependencies_count EXCEPT ![r] = 0]
    /\ insert_succeeded' = [insert_succeeded EXCEPT ![r] = TRUE]
    /\ UNCHANGED <<life, mv_attached, reschedule_ms, polling,
                   total_rows, rows, iter_pos, inflight,
                   requests, successful, last_read>>
    /\ UNCHANGED <<env_vars, table_metadata, processing, processed, failed,
                   retries, watermark, lease, blob>>
    /\ UNCHANGED table_vars

\* An end of the tick that goes on to reschedule whatever shutdown_called is.
TickEndCheckAlwaysSchedules(r) ==
    /\ pc[r] = "resched"
    /\ pc' = [pc EXCEPT ![r] = "schedule"]
    /\ UNCHANGED <<hist, exc, dependencies_count, insert_succeeded>>
    /\ UNCHANGED <<scheduled, life, mv_attached, reschedule_ms, polling,
                   total_rows, rows, iter_pos, inflight,
                   requests, successful, last_read>>
    /\ UNCHANGED <<env_vars, keeper_vars>>
    /\ UNCHANGED table_vars

\* Line 530 on its own: the tick reads shutdown_called.  If it is set the
\* function returns; otherwise the tick goes on to line 532, whatever
\* shutdown() does in the meantime.
TickEndCheck(r) ==
    /\ pc[r] = "resched"
    /\ IF shutdown_called(r)
         THEN /\ pc' = [pc EXCEPT ![r] = "idle"]
              /\ hist' = [hist EXCEPT ![r] = NoHist]
              /\ exc' = [exc EXCEPT ![r] = None]
              /\ dependencies_count' = [dependencies_count EXCEPT ![r] = 0]
              /\ insert_succeeded' = [insert_succeeded EXCEPT ![r] = TRUE]
         ELSE /\ pc' = [pc EXCEPT ![r] = "schedule"]
              /\ UNCHANGED <<hist, exc, dependencies_count, insert_succeeded>>
    /\ UNCHANGED <<scheduled, life, mv_attached, reschedule_ms, polling,
                   total_rows, rows, iter_pos, inflight,
                   requests, successful, last_read>>
    /\ UNCHANGED <<env_vars, keeper_vars>>
    /\ UNCHANGED table_vars

\* Lines 532-546 on their own: task->scheduleAfter, unregister when the
\* interval exceeds 5000 ms, return.
TickEndSchedule(r) ==
    /\ pc[r] = "schedule"
    /\ scheduled' = [scheduled EXCEPT ![r] = TRUE]
    /\ registered' = [registered EXCEPT ![r] =
           IF reschedule_ms[r] > UnregisterThreshold THEN FALSE ELSE @]
    /\ pc' = [pc EXCEPT ![r] = "idle"]
    /\ hist' = [hist EXCEPT ![r] = NoHist]
    /\ exc' = [exc EXCEPT ![r] = None]
    /\ dependencies_count' = [dependencies_count EXCEPT ![r] = 0]
    /\ insert_succeeded' = [insert_succeeded EXCEPT ![r] = TRUE]
    /\ UNCHANGED <<life, mv_attached, reschedule_ms, polling,
                   total_rows, rows, iter_pos, inflight,
                   requests, successful, last_read>>
    /\ UNCHANGED <<env_vars, table_metadata, processing, processed, failed,
                   retries, watermark, lease, blob>>
    /\ UNCHANGED table_vars

\* --------------------------------------------------- engine: streamToViews
\* Lines 549-570: createFileIterator, total_rows = 0.
StreamBegin(r) ==
    /\ pc[r] = "stream"
    /\ iter_pos' = [iter_pos EXCEPT ![r] = 0]
    /\ total_rows' = [total_rows EXCEPT ![r] = 0]
    /\ pc' = [pc EXCEPT ![r] = "loop"]
    /\ UNCHANGED <<scheduled, life, mv_attached, reschedule_ms, polling,
                   dependencies_count, rows, inflight, insert_succeeded,
                   requests, successful, exc, last_read, hist>>
    /\ UNCHANGED <<env_vars, keeper_vars>>
    /\ UNCHANGED table_vars

\* file_iterator->isFinished(): the listing is exhausted.
isFinished(r) == \A p \in Paths : p <= iter_pos[r]

\* A loop that goes on until the listing is exhausted, whatever shutdown_called is.
LoopConditionIgnoresShutdown(r) == ~isFinished(r)

\* Line 572: while (!shutdown_called && !file_iterator->isFinished())
LoopCondition(r) == ~shutdown_called(r) /\ ~isFinished(r)

\* Lines 578-622: a new insert iteration: the insert pipeline and
\* processing_threads_num sources over the shared iterator.
IterationBegin(r) ==
    /\ pc[r] = "loop"
    /\ LoopCondition(r)
    /\ inflight' = [inflight EXCEPT ![r] = {}]
    /\ rows' = [rows EXCEPT ![r] = 0]
    /\ hist' = [hist EXCEPT ![r] = NoHist]
    /\ pc' = [pc EXCEPT ![r] = "exec"]
    /\ UNCHANGED <<scheduled, life, mv_attached, reschedule_ms, polling,
                   dependencies_count, total_rows, iter_pos, insert_succeeded,
                   requests, successful, exc, last_read>>
    /\ UNCHANGED <<env_vars, keeper_vars>>
    /\ UNCHANGED table_vars

\* A delay adjustment that backs off without the ceiling.
NextIntervalUncapped(r, processed_rows) ==
    IF processed_rows
      THEN polling[r].min
      ELSE reschedule_ms[r] + polling[r].backoff

\* A delay adjustment that never adds polling_backoff_ms.
NextIntervalNoBackoff(r, processed_rows) ==
    IF processed_rows
      THEN polling[r].min
      ELSE Min(polling[r].max, reschedule_ms[r])

\* threadFunc, lines 505-516: the next reschedule interval from the result of
\* streamToViews (total_rows > 0).
NextInterval(r, processed_rows) ==
    IF processed_rows
      THEN polling[r].min
      ELSE Min(polling[r].max, reschedule_ms[r] + polling[r].backoff)

\* Lines 641-642 and threadFunc 505-518: the loop ends, streamToViews returns
\* total_rows > 0, the interval is adjusted, the streaming branch is left.
StreamReturn(r) ==
    /\ pc[r] = "loop"
    /\ ~LoopCondition(r)
    /\ reschedule_ms' = [reschedule_ms EXCEPT ![r] = NextInterval(r, total_rows[r] > 0)]
    /\ mv_attached' = [mv_attached EXCEPT ![r] = FALSE]
    /\ total_rows' = [total_rows EXCEPT ![r] = 0]
    /\ iter_pos' = [iter_pos EXCEPT ![r] = 0]
    /\ pc' = [pc EXCEPT ![r] = "resched"]
    /\ UNCHANGED <<scheduled, life, polling, dependencies_count, rows, inflight,
                   insert_succeeded, requests, successful, exc, last_read, hist>>
    /\ UNCHANGED <<env_vars, keeper_vars>>
    /\ UNCHANGED table_vars

\* One source (processor i) takes the next path from the shared iterator,
\* claims it and reads it; ok = the object was read and parsed without error.
\* A path that cannot be claimed is skipped.
NextFile(r, i, ok) ==
    /\ pc[r] = "exec"
    /\ i < table_metadata.processing_threads_num
    /\ ~isFinished(r)
    /\ LET p == iter_pos[r] + 1 IN
       /\ iter_pos' = [iter_pos EXCEPT ![r] = p]
       /\ IF CanClaim(r, p)
            THEN /\ processing' = processing \cup {[path |-> p, owner |-> r]}
                 /\ lease' = IF table_metadata.mode = "ordered" THEN r ELSE lease
                 /\ inflight' = [inflight EXCEPT ![r] =
                                   @ \cup {[path |-> p, proc |-> i, ok |-> ok]}]
                 /\ rows' = [rows EXCEPT ![r] = IF ok THEN @ + 1 ELSE @]
            ELSE UNCHANGED <<processing, lease, inflight, rows>>
    /\ UNCHANGED <<pc, scheduled, life, mv_attached, reschedule_ms, polling,
                   dependencies_count, total_rows, insert_succeeded, requests,
                   successful, exc, last_read, hist>>
    /\ UNCHANGED <<env_vars, table_metadata, registered, processed, failed,
                   retries, watermark, blob>>
    /\ UNCHANGED table_vars

\* A catch block that commits as if the insert had succeeded.
InsertSucceededAnyway == TRUE

\* Line 631: the catch block calls commit(/* insert_succeeded */false, ...).
InsertSucceededOnThrow == FALSE

\* Lines 624-631: the insert pipeline throws.
PipelineThrows(r) ==
    /\ pc[r] = "exec"
    /\ insert_succeeded' = [insert_succeeded EXCEPT ![r] = InsertSucceededOnThrow]
    /\ exc' = [exc EXCEPT ![r] = "insert"]
    /\ hist' = [hist EXCEPT ![r].threw = TRUE]
    /\ pc' = [pc EXCEPT ![r] = "commit"]
    /\ UNCHANGED <<scheduled, life, mv_attached, reschedule_ms, polling,
                   dependencies_count, total_rows, rows, iter_pos, inflight,
                   requests, successful, last_read>>
    /\ UNCHANGED <<env_vars, keeper_vars>>
    /\ UNCHANGED table_vars

\* Lines 624-628 and 636: the pipeline completes, commit(/* insert_succeeded */true, ...).
PipelineDone(r) ==
    /\ pc[r] = "exec"
    /\ insert_succeeded' = [insert_succeeded EXCEPT ![r] = TRUE]
    /\ pc' = [pc EXCEPT ![r] = "commit"]
    /\ UNCHANGED <<scheduled, life, mv_attached, reschedule_ms, polling,
                   dependencies_count, total_rows, rows, iter_pos, inflight,
                   requests, successful, exc, last_read, hist>>
    /\ UNCHANGED <<env_vars, keeper_vars>>
    /\ UNCHANGED table_vars

\* ---------------------------------------------------------- engine: commit
\* A commit that goes on to the transaction even when there is nothing to
\* commit.
CommitPrepareNoEarlyReturn(r) ==
    /\ pc[r] = "commit"
    /\ LET reqs == PrepareCommitRequests(inflight[r], 0, insert_succeeded[r])
           succ == SuccessfulObjects(reqs)
       IN  /\ requests' = [requests EXCEPT ![r] = reqs]
           /\ successful' = [successful EXCEPT ![r] = succ]
           /\ pc' = [pc EXCEPT ![r] = "multi"]
           /\ blob' = [p \in Paths |-> blob[p] /\ p \notin ObjectsToRemove(succ)]
    /\ UNCHANGED <<scheduled, life, mv_attached, reschedule_ms, polling,
                   dependencies_count, total_rows, rows, iter_pos, inflight,
                   insert_succeeded, exc, last_read, hist>>
    /\ UNCHANGED <<env_vars, table_metadata, registered, processing, processed,
                   failed, retries, watermark, lease>>
    /\ UNCHANGED table_vars

\* Lines 645-673: gather the requests of every source; nothing to commit if
\* there are none; otherwise apply the after-processing action (remove the
\* successful objects) before the requests are committed.
CommitPrepare(r) ==
    /\ pc[r] = "commit"
    /\ LET reqs == PrepareCommitRequests(inflight[r], 0, insert_succeeded[r])
           succ == SuccessfulObjects(reqs)
       IN  /\ requests' = [requests EXCEPT ![r] = reqs]
           /\ successful' = [successful EXCEPT ![r] = succ]
           /\ IF reqs = <<>>
                THEN /\ pc' = [pc EXCEPT ![r] = "release"]
                     /\ UNCHANGED blob
                ELSE /\ pc' = [pc EXCEPT ![r] = "multi"]
                     /\ blob' = [p \in Paths |-> blob[p] /\ p \notin ObjectsToRemove(succ)]
    /\ UNCHANGED <<scheduled, life, mv_attached, reschedule_ms, polling,
                   dependencies_count, total_rows, rows, iter_pos, inflight,
                   insert_succeeded, exc, last_read, hist>>
    /\ UNCHANGED <<env_vars, table_metadata, registered, processing, processed,
                   failed, retries, watermark, lease>>
    /\ UNCHANGED table_vars

\* A commit whose fail point does not throw: the transaction goes through.
CommitFailPointPasses(r) ==
    /\ pc[r] = "multi"
    /\ failpoint
    /\ MultiValid(r, requests[r])
    /\ LET k == ApplyRequests(KeeperFiles, r, requests[r]) IN
         /\ processing' = k.processing
         /\ processed' = k.processed
         /\ failed' = k.failed
         /\ retries' = k.retries
         /\ watermark' = k.watermark
    /\ hist' = [hist EXCEPT ![r].multis = @ + 1,
                            ![r].finalized = {i \in Processors :
                                     i < table_metadata.processing_threads_num}]
    /\ pc' = [pc EXCEPT ![r] = "release"]
    /\ UNCHANGED <<scheduled, life, mv_attached, reschedule_ms, polling,
                   dependencies_count, total_rows, rows, iter_pos, inflight,
                   insert_succeeded, requests, successful, exc, last_read>>
    /\ UNCHANGED <<env_vars, table_metadata, registered, lease, blob>>
    /\ UNCHANGED table_vars

\* Lines 678-680: the fail point throws UNKNOWN_EXCEPTION before tryMulti.
CommitFailPoint(r) ==
    /\ pc[r] = "multi"
    /\ failpoint
    /\ CatchInTick(r, "failpoint")
    /\ UNCHANGED <<scheduled, life, reschedule_ms, polling, dependencies_count,
                   insert_succeeded, last_read, hist>>
    /\ UNCHANGED <<env_vars, keeper_vars>>
    /\ UNCHANGED table_vars

\* Lines 691-692: for (auto & source : sources) source->finalizeCommit(...)
FinalizedSources == {i \in Processors : i < table_metadata.processing_threads_num}

\* Lines 682-697: tryMulti returns ZOK: the requests are applied, every
\* source finalizes, commit returns.
CommitMultiOk(r) ==
    /\ pc[r] = "multi"
    /\ ~failpoint
    /\ MultiValid(r, requests[r])
    /\ LET k == ApplyRequests(KeeperFiles, r, requests[r]) IN
         /\ processing' = k.processing
         /\ processed' = k.processed
         /\ failed' = k.failed
         /\ retries' = k.retries
         /\ watermark' = k.watermark
    /\ hist' = [hist EXCEPT ![r].multis = @ + 1, ![r].finalized = FinalizedSources]
    /\ pc' = [pc EXCEPT ![r] = "release"]
    /\ UNCHANGED <<scheduled, life, mv_attached, reschedule_ms, polling,
                   dependencies_count, total_rows, rows, iter_pos, inflight,
                   insert_succeeded, requests, successful, exc, last_read>>
    /\ UNCHANGED <<env_vars, table_metadata, registered, lease, blob>>
    /\ UNCHANGED table_vars

\* A commit that swallows the failure of the transaction: streamToViews goes
\* on with the next turn of the loop.
CommitMultiFailsSwallowed(r) ==
    /\ pc[r] = "multi"
    /\ ~failpoint
    /\ hist' = [hist EXCEPT ![r].multis = @ + 1]
    /\ inflight' = [inflight EXCEPT ![r] = {}]
    /\ requests' = [requests EXCEPT ![r] = <<>>]
    /\ successful' = [successful EXCEPT ![r] = {}]
    /\ rows' = [rows EXCEPT ![r] = 0]
    /\ exc' = [exc EXCEPT ![r] = None]
    /\ pc' = [pc EXCEPT ![r] = "loop"]
    /\ UNCHANGED <<scheduled, life, mv_attached, reschedule_ms, polling,
                   dependencies_count, total_rows, iter_pos, insert_succeeded,
                   last_read>>
    /\ UNCHANGED <<env_vars, keeper_vars>>
    /\ UNCHANGED table_vars

\* A commit whose sources finalize although the transaction failed.
CommitMultiFailsFinalizes(r) ==
    /\ pc[r] = "multi"
    /\ ~failpoint
    /\ hist' = [hist EXCEPT ![r].multis = @ + 1, ![r].finalized = FinalizedSources]
    /\ CatchInTick(r, "multi")
    /\ UNCHANGED <<scheduled, life, reschedule_ms, polling, dependencies_count,
                   insert_succeeded, last_read>>
    /\ UNCHANGED <<env_vars, keeper_vars>>
    /\ UNCHANGED table_vars

\* Lines 682-687: tryMulti returns an error: KeeperMultiException with the
\* requests and the responses.
CommitMultiFails(r) ==
    /\ pc[r] = "multi"
    /\ ~failpoint
    /\ hist' = [hist EXCEPT ![r].multis = @ + 1]
    /\ CatchInTick(r, "multi")
    /\ UNCHANGED <<scheduled, life, reschedule_ms, polling, dependencies_count,
                   insert_succeeded, last_read>>
    /\ UNCHANGED <<env_vars, keeper_vars>>
    /\ UNCHANGED table_vars

\* file_iterator->releaseFinishedBuckets(): the bucket the replica holds and
\* has drained is released.
ReleasedLease(r) == IF lease = r /\ isFinished(r) THEN None ELSE lease

\* A loop that goes on after the commit without releasing the finished buckets.
AfterCommitKeepsBuckets(r) ==
    /\ pc[r] = "release"
    /\ exc[r] = None
    /\ total_rows' = [total_rows EXCEPT ![r] = @ + rows[r]]
    /\ rows' = [rows EXCEPT ![r] = 0]
    /\ inflight' = [inflight EXCEPT ![r] = {}]
    /\ requests' = [requests EXCEPT ![r] = <<>>]
    /\ successful' = [successful EXCEPT ![r] = {}]
    /\ pc' = [pc EXCEPT ![r] = "loop"]
    /\ UNCHANGED <<scheduled, life, mv_attached, reschedule_ms, polling,
                   dependencies_count, iter_pos, insert_succeeded, exc,
                   last_read, hist>>
    /\ UNCHANGED <<env_vars, keeper_vars>>
    /\ UNCHANGED table_vars

\* Lines 636-638: commit returned after a successful insert:
\* releaseFinishedBuckets, total_rows += rows, next turn of the loop.
AfterCommit(r) ==
    /\ pc[r] = "release"
    /\ exc[r] = None
    /\ lease' = ReleasedLease(r)
    /\ total_rows' = [total_rows EXCEPT ![r] = @ + rows[r]]
    /\ rows' = [rows EXCEPT ![r] = 0]
    /\ inflight' = [inflight EXCEPT ![r] = {}]
    /\ requests' = [requests EXCEPT ![r] = <<>>]
    /\ successful' = [successful EXCEPT ![r] = {}]
    /\ pc' = [pc EXCEPT ![r] = "loop"]
    /\ UNCHANGED <<scheduled, life, mv_attached, reschedule_ms, polling,
                   dependencies_count, iter_pos, insert_succeeded, exc,
                   last_read, hist>>
    /\ UNCHANGED <<env_vars, table_metadata, registered, processing, processed,
                   failed, retries, watermark, blob>>
    /\ UNCHANGED table_vars

\* A catch block without the throw: the loop goes on after the commit.
ContinueAfterCommit(r) ==
    /\ pc[r] = "release"
    /\ exc[r] # None
    /\ lease' = ReleasedLease(r)
    /\ exc' = [exc EXCEPT ![r] = None]
    /\ inflight' = [inflight EXCEPT ![r] = {}]
    /\ requests' = [requests EXCEPT ![r] = <<>>]
    /\ successful' = [successful EXCEPT ![r] = {}]
    /\ rows' = [rows EXCEPT ![r] = 0]
    /\ pc' = [pc EXCEPT ![r] = "loop"]
    /\ UNCHANGED <<scheduled, life, mv_attached, reschedule_ms, polling,
                   dependencies_count, total_rows, iter_pos, insert_succeeded,
                   last_read, hist>>
    /\ UNCHANGED <<env_vars, table_metadata, registered, processing, processed,
                   failed, retries, watermark, blob>>
    /\ UNCHANGED table_vars

\* A failed insert after which the delay is adjusted as if streamToViews had
\* returned.
RethrowAfterCommitAdjustsDelay(r) ==
    /\ pc[r] = "release"
    /\ exc[r] # None
    /\ lease' = ReleasedLease(r)
    /\ CatchInTick(r, exc[r])
    /\ reschedule_ms' = [reschedule_ms EXCEPT ![r] = NextInterval(r, total_rows[r] > 0)]
    /\ UNCHANGED <<scheduled, life, polling, dependencies_count,
                   insert_succeeded, last_read, hist>>
    /\ UNCHANGED <<env_vars, table_metadata, registered, processing, processed,
                   failed, retries, watermark, blob>>
    /\ UNCHANGED table_vars

\* Lines 631-633: commit returned inside the catch block:
\* releaseFinishedBuckets, then throw; rethrows the pipeline's exception.
RethrowAfterCommit(r) ==
    /\ pc[r] = "release"
    /\ exc[r] # None
    /\ lease' = ReleasedLease(r)
    /\ CatchInTick(r, exc[r])
    /\ UNCHANGED <<scheduled, life, reschedule_ms, polling, dependencies_count,
                   insert_succeeded, last_read, hist>>
    /\ UNCHANGED <<env_vars, table_metadata, registered, processing, processed,
                   failed, retries, watermark, blob>>
    /\ UNCHANGED table_vars

\* ------------------------------------------------------------- environment
\* A dependent view of kind k is created or attached.
AttachView(r, k) ==
    /\ k \notin views[r]
    /\ Cardinality(views[r]) < MaxViews
    /\ views' = [views EXCEPT ![r] = @ \cup {k}]
    /\ UNCHANGED <<failpoint, engine_vars, keeper_vars>>
    /\ UNCHANGED table_vars

\* A dependent view is dropped or detached.
DetachView(r, k) ==
    /\ k \in views[r]
    /\ views' = [views EXCEPT ![r] = @ \ {k}]
    /\ UNCHANGED <<failpoint, engine_vars, keeper_vars>>
    /\ UNCHANGED table_vars

\* The fail point object_storage_queue_fail_commit is enabled or disabled.
ToggleFailPoint ==
    /\ failpoint' = ~failpoint
    /\ UNCHANGED <<views, engine_vars, keeper_vars>>
    /\ UNCHANGED table_vars

\* The coordinator session of replica r is lost: its ephemeral nodes (claims,
\* bucket lease, registration) disappear.
SessionExpired(r) ==
    /\ \/ \E rec \in processing : rec.owner = r
       \/ lease = r
       \/ registered[r]
    /\ processing' = {rec \in processing : rec.owner # r}
    /\ lease' = IF lease = r THEN None ELSE lease
    /\ registered' = [registered EXCEPT ![r] = FALSE]
    /\ UNCHANGED <<table_metadata, processed, failed, retries, watermark, blob>>
    /\ UNCHANGED <<env_vars, engine_vars>>
    /\ UNCHANGED table_vars

\* The cleanup pass of the queue metadata (unordered mode) evicts a Processed
\* record (TTL or cap).
Cleanup(p) ==
    /\ table_metadata.mode = "unordered"
    /\ p \in processed
    /\ processed' = processed \ {p}
    /\ UNCHANGED <<table_metadata, registered, processing, failed, retries,
                   watermark, lease, blob>>
    /\ UNCHANGED <<env_vars, engine_vars>>
    /\ UNCHANGED table_vars

\* ----------------------------------------------------------- specifications
ThreadFuncBody(r) ==
    \/ TickStart(r)
    \/ RegisterOk(r)
    \/ RegisterThrows(r)
    \/ StreamBegin(r)
    \/ IterationBegin(r)
    \/ StreamReturn(r)
    \/ \E i \in Processors, ok \in BOOLEAN : NextFile(r, i, ok)
    \/ PipelineThrows(r)
    \/ PipelineDone(r)
    \/ CommitPrepare(r)
    \/ CommitFailPoint(r)
    \/ CommitMultiOk(r)
    \/ CommitMultiFails(r)
    \/ AfterCommit(r)
    \/ RethrowAfterCommit(r)

\* threadFunc whose end (lines 530-546) no other thread interleaves with.
ThreadFunc(r) ==
    \/ ThreadFuncBody(r)
    \/ TickEnd(r)

\* One table with its materialized view attached, against the coordinator
\* and the blob store: the fail point, session loss, the cleanup pass and
\* shutdown happen at any time.
Init ==
    /\ InitEngine([min |-> 1000, max |-> 7000, backoff |-> 3000])
    /\ InitTable(CreateArgs, <<"/", "*">>,
                 CreateSettings([min |-> 1000, max |-> 7000, backoff |-> 3000]), NoError)
    /\ InitKeeper({MaxRetries})
    /\ views = [r \in Replicas |-> {"mv"}]
    /\ failpoint = FALSE

Next ==
    \/ Startup("r1")
    \/ ThreadFunc("r1")
    \/ ShutdownRequest("r1")
    \/ ShutdownFinish("r1")
    \/ ToggleFailPoint
    \/ SessionExpired("r1")
    \/ \E p \in Paths : Cleanup(p)

Spec == Init /\ [][Next]_vars

\* One table whose dependent views come and go while the task runs, and
\* direct SELECTs; the fail point is enabled or not for the whole run.
InitViews ==
    /\ InitEngine([min |-> 1000, max |-> 7000, backoff |-> 3000])
    /\ InitTable(CreateArgs, <<"/", "*">>,
                 CreateSettings([min |-> 1000, max |-> 7000, backoff |-> 3000]), NoError)
    /\ InitKeeper({MaxRetries})
    /\ table_metadata.mode = "unordered"
    /\ table_metadata.after_processing = "keep"
    /\ views = [r \in Replicas |-> {}]
    /\ failpoint \in BOOLEAN

NextViews ==
    \/ Startup("r1")
    \/ ThreadFunc("r1")
    \/ \E allow \in BOOLEAN : Read("r1", allow)
    \/ \E k \in ViewKinds : AttachView("r1", k)
    \/ \E k \in ViewKinds : DetachView("r1", k)

SpecViews == InitViews /\ [][NextViews]_vars

\* One table with its materialized view attached that is shut down at any
\* time; shutdown() can set its flag between two lines of the end of a tick.
NextShutdown ==
    \/ Startup("r1")
    \/ ThreadFuncBody("r1")
    \/ TickEndCheck("r1")
    \/ TickEndSchedule("r1")
    \/ ShutdownRequest("r1")
    \/ ShutdownFinish("r1")
    \/ ToggleFailPoint

SpecShutdown == Init /\ [][NextShutdown]_vars

\* The cluster: every replica runs the same table, each with its
\* materialized view attached, over the shared coordinator and blob store
\* (loading_retries = 0, after_processing = keep, constant polling interval;
\* one of the replicas can lose its coordinator session; the fail point is
\* enabled or not for the whole run).
InitCluster ==
    /\ InitEngine([min |-> 1000, max |-> 1000, backoff |-> 0])
    /\ InitTable(CreateArgs, <<"/", "*">>,
                 CreateSettings([min |-> 1000, max |-> 1000, backoff |-> 0]), NoError)
    /\ InitKeeper({0})
    /\ table_metadata.after_processing = "keep"
    /\ views = [r \in Replicas |-> {"mv"}]
    /\ failpoint \in BOOLEAN

NextCluster ==
    \/ \E r \in Replicas : Startup(r)
    \/ \E r \in Replicas : ThreadFunc(r)
    \/ SessionExpired("r1")
    \/ \E p \in Paths : Cleanup(p)

SpecCluster == InitCluster /\ [][NextCluster]_vars

\* CREATE and ATTACH with every combination of arguments: the constructor
\* runs once and the table, if it exists then, is started.
CreateInputs ==
    [is_attach : BOOLEAN, mode_changed : BOOLEAN,
     processing_threads_num : 0..NumWorkers,
     cleanup_interval_min_ms : {30000, 60000},
     cleanup_interval_max_ms : {30000, 60000},
     path : UNION {[1..n -> PathChars] : n \in 0..MaxPathLen}]

InitCreate ==
    /\ \E args \in CreateInputs :
           InitTable(args, args.path,
                     CreateSettings([min |-> 1000, max |-> 7000, backoff |-> 3000]),
                     NoQuery)
    /\ life = [r \in Replicas |-> "absent"]
    /\ pc = [r \in Replicas |-> "idle"]
    /\ scheduled = [r \in Replicas |-> FALSE]
    /\ mv_attached = [r \in Replicas |-> FALSE]
    /\ polling = [r \in Replicas |-> [min |-> 1000, max |-> 7000, backoff |-> 3000]]
    /\ reschedule_ms = [r \in Replicas |-> polling[r].min]
    /\ dependencies_count = [r \in Replicas |-> 0]
    /\ total_rows = [r \in Replicas |-> 0]
    /\ rows = [r \in Replicas |-> 0]
    /\ iter_pos = [r \in Replicas |-> 0]
    /\ inflight = [r \in Replicas |-> {}]
    /\ insert_succeeded = [r \in Replicas |-> TRUE]
    /\ requests = [r \in Replicas |-> <<>>]
    /\ successful = [r \in Replicas |-> {}]
    /\ exc = [r \in Replicas |-> None]
    /\ last_read = [r \in Replicas |-> None]
    /\ hist = [r \in Replicas |-> NoHist]
    /\ InitKeeper({MaxRetries})
    /\ views = [r \in Replicas |-> {}]
    /\ failpoint = FALSE

NextCreate ==
    \/ Constructor("r1")
    \/ Startup("r1")

SpecCreate == InitCreate /\ [][NextCreate]_vars

\* ALTER queries on a started table whose views come and go; the task does
\* not get to run.  The table was created with one of a few SETTINGS clauses,
\* some written with the prefix s3queue_, some naming a setting twice.
InputNames ==
    {<<b>> : b \in AlteredSettings} \cup {<<S3QueuePrefix, b>> : b \in AlteredSettings}

\* MODIFY SETTING of one of the names to one of the values of that setting.
ValidModifyCommands(names) ==
    UNION {{[type |-> "MODIFY_SETTING",
             settings_changes |-> <<[name |-> n, value |-> v]>>,
             settings_resets |-> {}] : v \in SettingValues(n[Len(n)])} : n \in names}

ResetCommands(names) ==
    {[type |-> "RESET_SETTING", settings_changes |-> <<>>, settings_resets |-> {n}] :
        n \in names}

OtherCommand ==
    [type |-> "ADD_COLUMN", settings_changes |-> <<>>, settings_resets |-> {}]

PlainNames == {<<b>> : b \in AlteredSettings}

\* One MODIFY SETTING naming a setting twice, with the prefix and without.
DoubleModifyCommands ==
    {[type |-> "MODIFY_SETTING",
      settings_changes |-> <<[name |-> <<S3QueuePrefix, b>>, value |-> v],
                             [name |-> <<b>>, value |-> v]>>,
      settings_resets |-> {}] :
        b \in {"polling_max_timeout_ms"}, v \in SettingValues("polling_max_timeout_ms")}

AlterInputs ==
    {<<c>> : c \in ValidModifyCommands(InputNames) \cup ResetCommands(InputNames)
                      \cup DoubleModifyCommands \cup {OtherCommand}}
        \cup {<<c, OtherCommand>> : c \in ResetCommands(PlainNames)}
        \cup {<<c, d>> : c \in ValidModifyCommands(PlainNames),
                         d \in ResetCommands(PlainNames)}

InitialSettings ==
    {<<[name |-> <<"processing_threads_num">>, value |-> NumWorkers],
       [name |-> <<"polling_max_timeout_ms">>, value |-> 1000]>>,
     <<[name |-> <<S3QueuePrefix, "polling_max_timeout_ms">>, value |-> 5000],
       [name |-> <<"cleanup_interval_min_ms">>, value |-> 30000],
       [name |-> <<S3QueuePrefix, "processing_threads_num">>, value |-> NumWorkers]>>,
     <<[name |-> <<"processing_threads_num">>, value |-> NumWorkers],
       [name |-> <<"buckets">>, value |-> 2]>>,
     <<[name |-> <<S3QueuePrefix, "polling_max_timeout_ms">>, value |-> 1000],
       [name |-> <<"processing_threads_num">>, value |-> NumWorkers],
       [name |-> <<"polling_max_timeout_ms">>, value |-> 5000]>>,
     <<[name |-> <<S3QueuePrefix, "cleanup_interval_min_ms">>, value |-> 30000],
       [name |-> <<"processing_threads_num">>, value |-> NumWorkers],
       [name |-> <<"cleanup_interval_min_ms">>, value |-> 60000]>>}

InitAlter ==
    /\ \E changes \in InitialSettings :
          /\ InitTable(CreateArgs, <<"/", "*">>, changes, NoError)
          /\ InitEngine([min |-> 1000,
                         max |-> LoadedValue(changes, <<"polling_max_timeout_ms">>,
                                             Len(changes)),
                         backoff |-> 3000])
    /\ InitKeeper({MaxRetries})
    /\ table_metadata.after_processing = "keep"
    /\ views = [r \in Replicas |-> {}]
    /\ failpoint = FALSE

\* The views of these tables: materialized views with and without a target.
AlterViewKinds == {"mv", "mv_notarget"}

NextAlter ==
    \/ Startup("r1")
    \/ \E commands \in AlterInputs : AlterQuery("r1", commands)
    \/ \E k \in AlterViewKinds : AttachView("r1", k)
    \/ \E k \in AlterViewKinds : DetachView("r1", k)

SpecAlter == InitAlter /\ [][NextAlter]_vars

\* ALTERs of polling_max_timeout_ms while the task of the table runs.
PollingAlterInputs ==
    {<<c>> : c \in ValidModifyCommands({<<"polling_max_timeout_ms">>})}

InitAlterStreaming ==
    /\ InitEngine([min |-> 1000, max |-> 1000, backoff |-> 2000])
    /\ InitTable(CreateArgs, <<"/", "*">>,
                 CreateSettings([min |-> 1000, max |-> 1000, backoff |-> 2000]), NoError)
    /\ InitKeeper({MaxRetries})
    /\ table_metadata.mode = "unordered"
    /\ table_metadata.after_processing = "keep"
    /\ views = [r \in Replicas |-> {"mv"}]
    /\ failpoint \in BOOLEAN

NextAlterStreaming ==
    \/ Startup("r1")
    \/ ThreadFunc("r1")
    \/ \E commands \in PollingAlterInputs : AlterQuery("r1", commands)

SpecAlterStreaming == InitAlterStreaming /\ [][NextAlterStreaming]_vars

\* ------------------------------------------------- engine: the engine mutex
\* The variables that the steps of the threads around the mutex leave alone.
UnchangedByThreads ==
    /\ UNCHANGED <<pc, scheduled, life, mv_attached, dependencies_count,
                   total_rows, rows, iter_pos, inflight, insert_succeeded,
                   requests, successful, exc, last_read, hist>>
    /\ UNCHANGED <<create_args, configuration_path>>
    /\ UNCHANGED <<env_vars, registered, processing, processed, failed, retries,
                   watermark, lease, blob>>

\* Thread t of replica r moves to position p.
Goto(r, t, p) == thread_pc' = [thread_pc EXCEPT ![r][t] = p]

\* std::lock_guard lock(mutex): thread t waits until the mutex is free and
\* takes it.
Lock(r, t) ==
    /\ mutex[r] = None
    /\ mutex' = [mutex EXCEPT ![r] = t]

\* The end of the scope of the lock_guard.
Unlock(r) == mutex' = [mutex EXCEPT ![r] = None]

\* alter(), lines 855-967: the commands are checked and applied to the
\* metadata, the settings stored in keeper are altered; what remains is the
\* loop over changed_settings.  When alter throws nothing is changed.
AlterBegin(r, commands) ==
    /\ life[r] = "running"
    /\ thread_pc[r]["alter"] = "idle"
    /\ LET outcome == alter(r, commands)
           error == AlterError(r, commands)
       IN  /\ ddl_result' = [ddl_result EXCEPT ![r] = error]
           /\ alter_pc' = [alter_pc EXCEPT ![r] = pc[r]]
           /\ IF error = NoError
                THEN /\ table_metadata' =
                            alterSettings(table_metadata, outcome.changed_settings)
                     /\ alter_frame' = [alter_frame EXCEPT ![r] =
                            [changed_settings |-> outcome.changed_settings,
                             new_settings |-> outcome.new_settings]]
                     /\ Goto(r, "alter", "alter_loop")
                ELSE UNCHANGED <<table_metadata, alter_frame, thread_pc>>
    /\ UNCHANGED <<polling, reschedule_ms, settings_changes, commit_settings,
                   list_objects_batch_size, enable_hash_ring_filtering, mutex,
                   commit_settings_copy, iterator_copy>>
    /\ UnchangedByThreads

\* Lines 969-971: the next change of the loop takes the mutex.
AlterLock(r) ==
    /\ thread_pc[r]["alter"] = "alter_loop"
    /\ alter_frame[r].changed_settings # <<>>
    /\ Lock(r, "alter")
    /\ Goto(r, "alter", "alter_write")
    /\ UNCHANGED <<polling, reschedule_ms, settings_changes, ddl_result, alter_pc,
                   table_metadata, alter_frame, commit_settings,
                   list_objects_batch_size, enable_hash_ring_filtering,
                   commit_settings_copy, iterator_copy>>
    /\ UnchangedByThreads

\* A loop that assigns every change in one turn, under one lock.
AlterWriteAll(r) ==
    /\ thread_pc[r]["alter"] = "alter_write"
    /\ polling' = [polling EXCEPT ![r] =
           AlterLocalSettings(@, alter_frame[r].changed_settings)]
    /\ AlterEngine(r, alter_frame[r].changed_settings)
    /\ alter_frame' = [alter_frame EXCEPT ![r].changed_settings = <<>>]
    /\ Unlock(r)
    /\ Goto(r, "alter", "alter_loop")
    /\ UNCHANGED <<reschedule_ms, settings_changes, ddl_result, alter_pc,
                   table_metadata, commit_settings_copy, iterator_copy>>
    /\ UnchangedByThreads

\* Lines 973-993: the change is assigned to the field of its name, the mutex
\* is released at the end of the turn of the loop.
AlterWrite(r) ==
    /\ thread_pc[r]["alter"] = "alter_write"
    /\ LET change == Head(alter_frame[r].changed_settings) IN
         /\ polling' = [polling EXCEPT ![r] = AlterLocalSettings(@, <<change>>)]
         /\ AlterEngine(r, <<change>>)
    /\ alter_frame' = [alter_frame EXCEPT ![r].changed_settings = Tail(@)]
    /\ Unlock(r)
    /\ Goto(r, "alter", "alter_loop")
    /\ UNCHANGED <<reschedule_ms, settings_changes, ddl_result, alter_pc,
                   table_metadata, commit_settings_copy, iterator_copy>>
    /\ UnchangedByThreads

\* Lines 996-997: the loop is over, the new metadata is set.
AlterEnd(r) ==
    /\ thread_pc[r]["alter"] = "alter_loop"
    /\ alter_frame[r].changed_settings = <<>>
    /\ settings_changes' = [settings_changes EXCEPT ![r] = alter_frame[r].new_settings]
    /\ alter_frame' = [alter_frame EXCEPT ![r] = NoFrame]
    /\ Goto(r, "alter", "idle")
    /\ UNCHANGED <<polling, reschedule_ms, ddl_result, alter_pc, table_metadata,
                   commit_settings, list_objects_batch_size,
                   enable_hash_ring_filtering, mutex, commit_settings_copy,
                   iterator_copy>>
    /\ UnchangedByThreads

\* The variables that the steps of the task and of getSettings leave alone.
UnchangedByReaders ==
    /\ UNCHANGED <<polling, settings_changes, ddl_result, alter_pc, table_metadata,
                   alter_frame, commit_settings, list_objects_batch_size,
                   enable_hash_ring_filtering>>
    /\ UnchangedByThreads

\* createFileIterator, lines 1014-1015, called by streamToViews (566).
CreateFileIteratorLock(r) ==
    /\ life[r] = "running"
    /\ thread_pc[r]["task"] = "idle"
    /\ Lock(r, "task")
    /\ Goto(r, "task", "createFileIterator")
    /\ UNCHANGED <<reschedule_ms, commit_settings_copy, iterator_copy>>
    /\ UnchangedByReaders

\* Lines 1016-1032: the two fields are copied, the mutex is released and the
\* iterator is made from the copies.
CreateFileIteratorCopy(r) ==
    /\ thread_pc[r]["task"] = "createFileIterator"
    /\ iterator_copy' = [iterator_copy EXCEPT ![r] =
           <<[list_objects_batch_size |-> list_objects_batch_size[r],
              enable_hash_ring_filtering |-> enable_hash_ring_filtering[r]]>>]
    /\ Unlock(r)
    /\ Goto(r, "task", "sources")
    /\ UNCHANGED <<reschedule_ms, commit_settings_copy>>
    /\ UnchangedByReaders

\* A createSource that copies commit_settings without the mutex.
CreateSourceNoLock(r) ==
    /\ thread_pc[r]["task"] = "sources"
    /\ Len(commit_settings_copy[r]) < table_metadata.processing_threads_num
    /\ Goto(r, "task", "createSource")
    /\ UNCHANGED <<mutex, reschedule_ms, commit_settings_copy, iterator_copy>>
    /\ UnchangedByReaders

\* createSource, lines 444-446, called by streamToViews for each of the
\* processing_threads_num sources (599-612).
CreateSourceLock(r) ==
    /\ thread_pc[r]["task"] = "sources"
    /\ Len(commit_settings_copy[r]) < table_metadata.processing_threads_num
    /\ Lock(r, "task")
    /\ Goto(r, "task", "createSource")
    /\ UNCHANGED <<reschedule_ms, commit_settings_copy, iterator_copy>>
    /\ UnchangedByReaders

\* Lines 447-457: commit_settings is copied, the mutex is released and the
\* source is made from the copy.
CreateSourceCopy(r) ==
    /\ thread_pc[r]["task"] = "createSource"
    /\ commit_settings_copy' = [commit_settings_copy EXCEPT ![r] =
           Append(@, commit_settings[r])]
    /\ Unlock(r)
    /\ Goto(r, "task", "sources")
    /\ UNCHANGED <<reschedule_ms, iterator_copy>>
    /\ UnchangedByReaders

\* streamToViews returns: its sources and its iterator are gone; threadFunc
\* takes the mutex at 508 or 514.
AdjustLock(r) ==
    /\ thread_pc[r]["task"] = "sources"
    /\ Len(commit_settings_copy[r]) = table_metadata.processing_threads_num
    /\ Lock(r, "task")
    /\ commit_settings_copy' = [commit_settings_copy EXCEPT ![r] = <<>>]
    /\ iterator_copy' = [iterator_copy EXCEPT ![r] = <<>>]
    /\ Goto(r, "task", "adjust")
    /\ UNCHANGED reschedule_ms
    /\ UnchangedByReaders

\* Lines 509 and 515: the delay is adjusted from the polling settings, the
\* mutex is released.
AdjustDelay(r, processed_rows) ==
    /\ thread_pc[r]["task"] = "adjust"
    /\ reschedule_ms' = [reschedule_ms EXCEPT ![r] = NextInterval(r, processed_rows)]
    /\ Unlock(r)
    /\ Goto(r, "task", "idle")
    /\ UNCHANGED <<commit_settings_copy, iterator_copy>>
    /\ UnchangedByReaders

\* getSettings, lines 1055-1056.
GetSettingsLock(r) ==
    /\ life[r] = "running"
    /\ thread_pc[r]["system"] = "idle"
    /\ Lock(r, "system")
    /\ Goto(r, "system", "getSettings")
    /\ UNCHANGED <<reschedule_ms, commit_settings_copy, iterator_copy>>
    /\ UnchangedByReaders

\* Lines 1057-1068: the fields are read into the settings that are returned,
\* the mutex is released.
GetSettingsRead(r) ==
    /\ thread_pc[r]["system"] = "getSettings"
    /\ Unlock(r)
    /\ Goto(r, "system", "idle")
    /\ UNCHANGED <<reschedule_ms, commit_settings_copy, iterator_copy>>
    /\ UnchangedByReaders

\* The ALTERs of the settings kept in the engine: MODIFY SETTING of two
\* settings in one query, or of one.
LocalAlterInputs ==
    LET ModifyTwo(n1, v1, n2, v2) ==
            <<[type |-> "MODIFY_SETTING",
               settings_changes |-> <<[name |-> <<n1>>, value |-> v1],
                                      [name |-> <<n2>>, value |-> v2]>>,
               settings_resets |-> {}]>>
    IN  {ModifyTwo("polling_max_timeout_ms", 5000, "polling_backoff_ms", 4000),
         ModifyTwo("polling_max_timeout_ms", 1000, "polling_backoff_ms", 1000),
         ModifyTwo("list_objects_batch_size", 5000, "enable_hash_ring_filtering", 1),
         ModifyTwo("list_objects_batch_size", 1000, "enable_hash_ring_filtering", 0)}
            \cup {<<c>> : c \in ValidModifyCommands(
                                    {<<"max_processed_files_before_commit">>})}

\* One started table in unordered mode, created with SETTINGS naming every
\* setting that the ALTERs change: ALTER queries of the settings kept in the
\* engine, the streaming of the background task and getSettings run as three
\* threads that meet at the engine's mutex.
InitMutex ==
    /\ InitEngine([min |-> 1000, max |-> 1000, backoff |-> 1000])
    /\ InitTable(CreateArgs, <<"/", "*">>,
                 <<[name |-> <<"processing_threads_num">>, value |-> NumWorkers],
                   [name |-> <<"polling_max_timeout_ms">>, value |-> 1000],
                   [name |-> <<"polling_backoff_ms">>, value |-> 1000],
                   [name |-> <<"max_processed_files_before_commit">>, value |-> 1000],
                   [name |-> <<"list_objects_batch_size">>, value |-> 1000],
                   [name |-> <<"enable_hash_ring_filtering">>, value |-> 0]>>,
                 NoError)
    /\ InitKeeper({MaxRetries})
    /\ table_metadata.mode = "unordered"
    /\ table_metadata.after_processing = "keep"
    /\ views = [r \in Replicas |-> {"mv"}]
    /\ failpoint = FALSE

NextMutex ==
    \/ Startup("r1")
    \/ \E commands \in LocalAlterInputs : AlterBegin("r1", commands)
    \/ AlterLock("r1")
    \/ AlterWrite("r1")
    \/ AlterEnd("r1")
    \/ CreateFileIteratorLock("r1")
    \/ CreateFileIteratorCopy("r1")
    \/ CreateSourceLock("r1")
    \/ CreateSourceCopy("r1")
    \/ AdjustLock("r1")
    \/ \E processed_rows \in BOOLEAN : AdjustDelay("r1", processed_rows)
    \/ GetSettingsLock("r1")
    \/ GetSettingsRead("r1")

SpecMutex == InitMutex /\ [][NextMutex]_vars

\* ------------------------------------------------------------------- claims

\* C1: for every object path p, in every state, at most one Processing record
\* for p exists cluster-wide, whatever the interleaving of the claims of the
\* replicas and of their workers.
C1_OneProcessingRecord ==
    \A p \in Paths : Cardinality({rec \in processing : rec.path = p}) <= 1

\* Both replicas are in an insert iteration, r1 holds the record of path 1 and
\* r2's iterator has passed path 1 without claiming it.
C1_Witness ==
    /\ pc["r1"] = "exec" /\ pc["r2"] = "exec"
    /\ [path |-> 1, owner |-> "r1"] \in processing
    /\ iter_pos["r2"] >= 1
    /\ \A f \in inflight["r2"] : f.path # 1
    /\ table_metadata.mode = "unordered"
    /\ 1 \notin processed /\ 1 \notin failed

\* C2: in a commit cycle whose insert failed (the pipeline threw), every
\* request of the commit is a retry or a move to Failed, every file of the
\* cycle has one, and once the commit is done no file of the cycle is
\* Processed: each one is Failed or has its retry counter incremented.
C2_FailedInsertNotProcessed ==
    \A r \in Replicas :
        (hist[r].threw /\ pc[r] \in {"multi", "release"}) =>
            /\ \A k \in DOMAIN requests[r] : requests[r][k].type \in {"retry", "failed"}
            /\ {requests[r][k].path : k \in DOMAIN requests[r]}
                   = {f.path : f \in inflight[r]}
            /\ pc[r] = "release" =>
                   \A f \in inflight[r] :
                       /\ ~IsProcessed(f.path)
                       /\ f.path \in failed \/ retries[f.path] > 0

\* The commit of a failed insert went through with a file that had been read
\* without error.
C2_Witness ==
    /\ pc["r1"] = "release"
    /\ hist["r1"].threw
    /\ hist["r1"].multis = 1
    /\ hist["r1"].finalized # {}
    /\ \E f \in inflight["r1"] : f.ok

\* C3: no step of a replica's task (a commit that succeeds, fails or is
\* aborted included) makes a Processed file stop being Processed or moves the
\* ordered watermark to a smaller path.
C3_MonotonicProgress ==
    [][engine_vars' # engine_vars =>
          /\ processed \subseteq processed'
          /\ watermark' >= watermark]_vars

\* A second commit cycle has succeeded on top of earlier progress, after a
\* commit of the other replica failed.
C3_Witness ==
    /\ pc["r2"] = "release"
    /\ hist["r2"].multis = 1
    /\ hist["r2"].finalized # {}
    /\ \/ processed = Paths
       \/ watermark = 2
    /\ pc["r1"] = "resched" /\ exc["r1"] = "multi"

\* The positions of a tick inside the streaming branch of threadFunc.
Streaming == {"register", "stream", "loop", "exec", "commit", "multi", "release"}

\* C4 as stated: a tick enters the streaming branch only if some dependent
\* view is a materialized view with a resolvable target table.
C4_OnlyMaterializedViewsCount ==
    [][\A r \in Replicas :
          (pc[r] = "idle" /\ pc'[r] \in Streaming) => "mv" \in views[r]]_vars

\* C4: a tick is skipped entirely (no registration, no file iterator, no
\* claim, no commit, no blob removed) exactly when getDependencies returns 0:
\* the table has no dependent view, or one of them does not resolve, or one
\* of them is a materialized view without a target table.  Otherwise every
\* dependent view counts, materialized or not, and the tick streams.
C4_TickSkippedIffNoDependencies ==
    [][\A r \in Replicas :
          /\ (pc[r] = "idle" /\ pc'[r] # "idle") =>
                IF \/ views[r] = {}
                   \/ "missing" \in views[r]
                   \/ "mv_notarget" \in views[r]
                  THEN /\ pc'[r] = "resched"
                       /\ dependencies_count'[r] = 0
                       /\ UNCHANGED <<mv_attached, iter_pos, inflight, requests,
                                      hist, keeper_vars>>
                  ELSE /\ pc'[r] = "register"
                       /\ dependencies_count'[r] = Cardinality(views[r])
                       /\ mv_attached'[r]
          /\ (pc[r] = "resched" /\ dependencies_count[r] = 0 /\ pc'[r] # "resched") =>
                /\ pc'[r] = "idle"
                /\ UNCHANGED <<iter_pos, inflight, requests, processing, processed,
                               failed, retries, watermark, lease, blob>>
                /\ registered[r] \/ ~registered'[r]
          /\ pc'[r] \in Streaming => dependencies_count'[r] > 0]_vars

\* A tick that started with a single dependent view, not a materialized one,
\* has claimed a file.
C4_Witness ==
    /\ pc["r1"] = "exec"
    /\ views["r1"] = {"view"}
    /\ dependencies_count["r1"] = 1
    /\ inflight["r1"] # {}

\* C5 as stated: in every state of a started table, a direct SELECT is
\* refused unless stream_like_engine_allow_direct_select is set, and refused
\* whenever a materialized view is attached to the table.
C5_ReadRefusedWithAttachedView ==
    \A r \in Replicas :
        life[r] = "running" =>
            /\ ReadResult(r, FALSE) = "refused"
            /\ (views[r] \cap {"mv", "mv_notarget"} # {}) => ReadResult(r, TRUE) = "refused"

\* C6: a blob is removed only by the step of a commit that precedes its
\* transaction, never after a multi of that commit; and when that step is done
\* with after_processing = delete, every successful object is gone from the
\* blob store while the multi is still to be issued.
C6_DeleteBeforeTransaction ==
    [][/\ blob' # blob =>
             \E r \in Replicas :
                 /\ pc[r] = "commit" /\ pc'[r] = "multi"
                 /\ hist[r].multis = 0 /\ hist'[r].multis = 0
       /\ \A r \in Replicas :
             (pc[r] = "commit" /\ pc'[r] = "multi"
                 /\ table_metadata.after_processing = "delete") =>
                    /\ \A p \in successful'[r] : ~blob'[p]
                    /\ \A p \in Paths \ successful'[r] : blob'[p] = blob[p]]_vars

\* A commit with after_processing = delete is about to issue its multi: its
\* successful objects are already gone.
C6_Witness ==
    /\ pc["r1"] = "multi"
    /\ table_metadata.after_processing = "delete"
    /\ successful["r1"] # {}
    /\ hist["r1"].multis = 0
    /\ \A p \in successful["r1"] : ~blob[p]

\* C7: a commit issues at most one multi; its requests are those of all the
\* workers, one per file of the iteration; when commit returns with non-empty
\* requests exactly one multi was issued and every worker finalized; when the
\* multi fails the tick has caught the transactional error and no worker
\* finalized.
C7_SingleMulti ==
    \A r \in Replicas :
        /\ hist[r].multis <= 1
        /\ pc[r] \in {"multi", "release"} =>
              /\ {requests[r][k].path : k \in DOMAIN requests[r]}
                     = {f.path : f \in inflight[r]}
              /\ Len(requests[r]) = Cardinality(inflight[r])
        /\ pc[r] = "multi" => requests[r] # <<>> /\ hist[r].multis = 0
        /\ (pc[r] = "release" /\ requests[r] # <<>>) =>
              /\ hist[r].multis = 1
              /\ hist[r].finalized =
                     {i \in Processors : i < table_metadata.processing_threads_num}
        /\ (pc[r] = "release" /\ requests[r] = <<>>) =>
              hist[r].multis = 0 /\ hist[r].finalized = {}
        /\ exc[r] = "multi" => hist[r].multis = 1 /\ hist[r].finalized = {}
        /\ (hist[r].multis = 1 /\ hist[r].finalized = {}) => exc[r] = "multi"

\* One multi has committed the files of two workers.
C7_Witness ==
    /\ pc["r1"] = "release"
    /\ hist["r1"].multis = 1
    /\ \E f, g \in inflight["r1"] : f.proc = 0 /\ g.proc = 1

\* C8: with the fail point enabled the transaction step of commit throws: no
\* multi is issued, no worker finalizes, the coordinator's file records are
\* unchanged and the tick catches the exception; the tick then ends and,
\* unless shutdown was requested, the task is scheduled again with a fresh
\* iterator and nothing in flight.
C8_FailPoint ==
    [][\A r \in Replicas :
          /\ (pc[r] = "multi" /\ failpoint /\ pc'[r] # "multi") =>
                /\ pc'[r] = "resched"
                /\ exc'[r] = "failpoint"
                /\ hist'[r].multis = 0
                /\ hist'[r].finalized = {}
                /\ UNCHANGED <<processing, processed, failed, retries, watermark>>
          /\ (pc[r] = "resched" /\ exc[r] = "failpoint" /\ pc'[r] # "resched") =>
                /\ pc'[r] = "idle"
                /\ ~shutdown_called(r) => scheduled'[r]
                /\ iter_pos'[r] = 0
                /\ inflight'[r] = {}]_vars

\* The tick of a running table has caught the fail point's exception.
C8_Witness ==
    /\ pc["r1"] = "resched"
    /\ exc["r1"] = "failpoint"
    /\ life["r1"] = "running"
    /\ failpoint

\* C9: a multi that fails ends the streaming of the tick at once (the tick is
\* at its rescheduling whenever it holds the transaction's exception, so no
\* further insert iteration runs); the tick has caught the exception, and
\* when it ends the task is scheduled again exactly when shutdown was not
\* requested.
C9_CommitFailureAbortsCycle ==
    [][\A r \in Replicas :
          /\ (pc[r] = "multi" /\ hist'[r].multis = hist[r].multis + 1
                  /\ hist'[r].finalized = {}) =>
                pc'[r] = "resched" /\ exc'[r] = "multi" /\ ~mv_attached'[r]
          /\ exc'[r] = "multi" => pc'[r] = "resched"
          /\ (pc[r] = "resched" /\ exc[r] = "multi" /\ pc'[r] # "resched") =>
                /\ pc'[r] = "idle"
                /\ exc'[r] = None
                /\ scheduled'[r] <=> ~shutdown_called(r)]_vars

\* The tick of a running table has caught the failure of a multi.
C9_Witness ==
    /\ pc["r1"] = "resched"
    /\ exc["r1"] = "multi"
    /\ hist["r1"].multis = 1
    /\ life["r1"] = "running"

\* C10 as stated: when the insert pipeline throws, the exception the tick
\* catches is always the pipeline's.
C10_PipelineExceptionAlwaysRethrown ==
    \A r \in Replicas :
        (hist[r].threw /\ pc[r] = "resched") => exc[r] = "insert"

\* C10: when the insert pipeline throws, commit runs with insert_succeeded =
\* false while the pipeline's exception is in flight, and the loop never goes
\* on: an exception always reaches the tick, the pipeline's when commit
\* returns, commit's own (fail point, failed multi) when commit throws.
C10_CommitThenException ==
    \A r \in Replicas :
        hist[r].threw =>
            /\ pc[r] \in {"commit", "multi", "release", "resched"}
            /\ pc[r] \in {"commit", "multi", "release"} =>
                  ~insert_succeeded[r] /\ exc[r] = "insert"
            /\ pc[r] = "resched" =>
                  /\ exc[r] \in {"insert", "multi", "failpoint"}
                  /\ hist[r].finalized # {} => exc[r] = "insert"
                  /\ (hist[r].multis = 1 /\ hist[r].finalized = {}) => exc[r] = "multi"

\* The pipeline threw and commit threw in the catch block: the tick has caught
\* commit's exception.
C10_Witness ==
    /\ pc["r1"] = "resched"
    /\ hist["r1"].threw
    /\ exc["r1"] = "failpoint"

\* C11: the delay changes only when streamToViews has returned; then it is
\* polling_min_timeout_ms if the cycle processed any row, and otherwise the old
\* delay plus polling_backoff_ms, capped at polling_max_timeout_ms.
C11_DelayAdjustment ==
    [][\A r \in Replicas :
          /\ (pc[r] = "loop" /\ pc'[r] = "resched") =>
                reschedule_ms'[r] =
                    IF total_rows[r] > 0 THEN polling[r].min
                    ELSE IF reschedule_ms[r] + polling[r].backoff <= polling[r].max
                           THEN reschedule_ms[r] + polling[r].backoff
                           ELSE polling[r].max
          /\ reschedule_ms'[r] # reschedule_ms[r] =>
                pc[r] = "loop" /\ pc'[r] = "resched"]_vars

\* A cycle without rows has ended with the delay at its ceiling while files
\* have been processed before (the delay was reset and has backed off again).
C11_Witness ==
    /\ pc["r1"] = "resched"
    /\ exc["r1"] = None
    /\ reschedule_ms["r1"] = polling["r1"].max
    /\ polling["r1"].max > polling["r1"].min
    /\ \E p \in Paths : IsProcessed(p)

SingleModifies == {<<c>> : c \in ValidModifyCommands(InputNames)}

ModifiedName(commands) == normalizeSetting(commands[1].settings_changes[1].name)

ModifiedValue(commands) == commands[1].settings_changes[1].value

Listed(r, name) == name \in SettingNames(NormalizeSettings(settings_changes[r]))

ListedTwice(r) == DuplicatedSetting(NormalizeSettings(settings_changes[r])) # NoError

C14_BucketsRequiresNoViews ==
    (life["r1"] = "running" /\ table_metadata.mode = "ordered" /\ ~ListedTwice("r1")) =>
        \A commands \in SingleModifies :
            LET old == settings_changes["r1"]
                changed == ModifiedValue(commands)
                               # LoadedValue(old, <<"buckets">>, Len(old))
            IN  (ModifiedName(commands) = <<"buckets">> /\ changed) =>
                    IF views["r1"] = {}
                      THEN AlterError("r1", commands) = NoError
                      ELSE AlterError("r1", commands) =
                               QueryError("SUPPORT_IS_DISABLED", <<"buckets">>,
                                          Cardinality(views["r1"]))

\* C14, amended: on a table of ordered mode, an ALTER that changes buckets
\* succeeds exactly when getDependencies() returns 0, which it does when the
\* table has no dependent view, when a dependent view does not resolve and
\* when a dependent materialized view has no target table; otherwise it fails
\* with SUPPORT_IS_DISABLED naming the setting and the number of views.
C14_BucketsRequiresNoDependencies ==
    (life["r1"] = "running" /\ table_metadata.mode = "ordered" /\ ~ListedTwice("r1")) =>
        \A commands \in SingleModifies :
            LET old == settings_changes["r1"]
                changed == ModifiedValue(commands)
                               # LoadedValue(old, <<"buckets">>, Len(old))
                ready == /\ views["r1"] # {}
                         /\ "missing" \notin views["r1"]
                         /\ "mv_notarget" \notin views["r1"]
            IN  (ModifiedName(commands) = <<"buckets">> /\ changed) =>
                    IF ~ready
                      THEN AlterError("r1", commands) = NoError
                      ELSE AlterError("r1", commands) =
                               QueryError("SUPPORT_IS_DISABLED", <<"buckets">>,
                                          Cardinality(views["r1"]))

\* With a materialized view attached an ALTER of buckets has been rejected, on
\* a table whose buckets an earlier ALTER has set to 0.
C14_Witness ==
    /\ table_metadata.mode = "ordered"
    /\ views["r1"] = {"mv"}
    /\ ddl_result["r1"] = QueryError("SUPPORT_IS_DISABLED", <<"buckets">>, 1)
    /\ Listed("r1", <<"buckets">>)
    /\ LoadedValue(settings_changes["r1"], <<"buckets">>, Len(settings_changes["r1"])) = 0

\* C15: an ALTER that contains a command other than MODIFY SETTING and RESET
\* SETTING is rejected with SUPPORT_IS_DISABLED, and the step of a query
\* rejected so changes no setting of the table, of the engine or of the
\* coordinator's table metadata.
C15_OnlyModifyAndReset ==
    /\ [](life["r1"] = "running" =>
            \A commands \in AlterInputs :
                (\E i \in DOMAIN commands :
                     commands[i].type \notin {"MODIFY_SETTING", "RESET_SETTING"})
                  => AlterError("r1", commands) = QueryError("SUPPORT_IS_DISABLED", <<>>, 0))
    /\ [][ddl_result'["r1"] = QueryError("SUPPORT_IS_DISABLED", <<>>, 0)
            => UNCHANGED <<settings_changes, table_metadata, polling, pc, scheduled>>]_vars

\* An ALTER with another command has been rejected on a table whose SETTINGS
\* list an earlier ALTER has changed.
C15_Witness ==
    /\ ddl_result["r1"] = QueryError("SUPPORT_IS_DISABLED", <<>>, 0)
    /\ settings_changes["r1"] \notin InitialSettings

\* C16: once the constructor has run on a path it accepts, it has failed with
\* BAD_ARGUMENTS exactly when (the table is created, not attached, and mode
\* was not specified) or processing_threads_num is 0 or cleanup_interval_min_ms
\* exceeds cleanup_interval_max_ms; otherwise the table exists, so an ATTACH
\* without mode is accepted.
C16_ValidateSettings ==
    LET args == create_args["r1"]
        invalid == \/ (~args.is_attach /\ ~args.mode_changed)
                   \/ args.processing_threads_num = 0
                   \/ args.cleanup_interval_min_ms > args.cleanup_interval_max_ms
    IN  /\ life["r1"] = "absent" =>
              ddl_result["r1"].code \in {"NONE", "BAD_ARGUMENTS", "BAD_QUERY_PARAMETER"}
        /\ life["r1"] # "absent" => ddl_result["r1"] = NoError
        /\ ddl_result["r1"].code \in {"OK", "BAD_ARGUMENTS"} =>
              (ddl_result["r1"].code = "BAD_ARGUMENTS" <=> invalid)

\* A table without mode has been attached and started.
C16_Witness ==
    /\ life["r1"] = "running"
    /\ create_args["r1"].is_attach
    /\ ~create_args["r1"].mode_changed
    /\ ddl_result["r1"] = NoError

\* C17 as stated: once the constructor has run, a path ending with '/' has
\* become that path followed by '*', a path with globs that does not end with
\* '/' is kept, and a path that neither ends with '/' nor has globs has
\* failed with BAD_QUERY_PARAMETER.
C17_PathEndsWithSlashOrHasGlobs ==
    LET path == create_args["r1"].path
        ends_with_slash == path # <<>> /\ path[Len(path)] = "/"
        with_globs == \E i \in DOMAIN path : path[i] = "*"
    IN  ddl_result["r1"] # NoQuery =>
          IF ends_with_slash
            THEN /\ configuration_path["r1"] = path \o <<"*">>
                 /\ ddl_result["r1"].code # "BAD_QUERY_PARAMETER"
          ELSE IF with_globs
            THEN /\ configuration_path["r1"] = path
                 /\ ddl_result["r1"].code # "BAD_QUERY_PARAMETER"
          ELSE ddl_result["r1"].code = "BAD_QUERY_PARAMETER"

\* C17, amended: once the constructor has run, the empty path has become
\* '/*', a path ending with '/' has become that path followed by '*', another
\* path with globs is kept, and another path without globs has failed with
\* BAD_QUERY_PARAMETER and is left as it was; a table exists only with a path
\* that has globs.
C17_PathNormalized ==
    LET path == create_args["r1"].path
        ends_with_slash == path # <<>> /\ path[Len(path)] = "/"
        with_globs == \E i \in DOMAIN path : path[i] = "*"
    IN  /\ ddl_result["r1"] # NoQuery =>
              IF path = <<>>
                THEN /\ configuration_path["r1"] = <<"/", "*">>
                     /\ ddl_result["r1"].code # "BAD_QUERY_PARAMETER"
              ELSE IF ends_with_slash
                THEN /\ configuration_path["r1"] = path \o <<"*">>
                     /\ ddl_result["r1"].code # "BAD_QUERY_PARAMETER"
              ELSE IF with_globs
                THEN /\ configuration_path["r1"] = path
                     /\ ddl_result["r1"].code # "BAD_QUERY_PARAMETER"
              ELSE /\ ddl_result["r1"].code = "BAD_QUERY_PARAMETER"
                   /\ configuration_path["r1"] = path
        /\ life["r1"] # "absent" =>
              \E i \in DOMAIN configuration_path["r1"] : configuration_path["r1"][i] = "*"

\* A table has been created and started with the empty path.
C17_Witness ==
    /\ life["r1"] = "running"
    /\ create_args["r1"].path = <<>>
    /\ configuration_path["r1"] = <<"/", "*">>

\* C18: an ALTER that names settings with the prefix s3queue_ has the outcome
\* (exception, changed settings, new SETTINGS list) of the ALTER that names
\* them without it.  On a table whose SETTINGS list names no setting twice, a
\* RESET of a listed setting has the exception, the changed settings and the
\* entries of the new SETTINGS list of a MODIFY of the setting to its default
\* value, so it passes the same mutability check when the default differs from
\* the old value; a RESET of a setting that is not listed changes nothing.
\* The engine's polling_max_timeout_ms is the value of the SETTINGS list, the
\* default after an accepted RESET.
C18_PrefixStrippedResetIsDefault ==
    LET strip(name) == IF Len(name) > 1 THEN <<name[Len(name)]>> ELSE name
        stripped(commands) ==
            [i \in DOMAIN commands |->
                [type |-> commands[i].type,
                 settings_changes |->
                     [j \in DOMAIN commands[i].settings_changes |->
                         [name |-> strip(commands[i].settings_changes[j].name),
                          value |-> commands[i].settings_changes[j].value]],
                 settings_resets |-> {strip(n) : n \in commands[i].settings_resets}]]
        modify(name) ==
            <<[type |-> "MODIFY_SETTING",
               settings_changes |-> <<[name |-> name, value |-> DefaultValue(name)]>>,
               settings_resets |-> {}]>>
        entries(changes) == {changes[i] : i \in DOMAIN changes}
        old == settings_changes["r1"]
    IN  life["r1"] = "running" =>
          /\ \A commands \in AlterInputs :
                /\ AlterError("r1", commands) = AlterError("r1", stripped(commands))
                /\ alter("r1", commands) = alter("r1", stripped(commands))
          /\ ~ListedTwice("r1") =>
                \A name \in PlainNames :
                    LET reset == <<CHOOSE c \in ResetCommands({name}) : TRUE>>
                    IN  IF Listed("r1", name)
                          THEN /\ AlterError("r1", reset) = AlterError("r1", modify(name))
                               /\ alter("r1", reset).changed_settings
                                      = alter("r1", modify(name)).changed_settings
                               /\ entries(alter("r1", reset).new_settings)
                                      = entries(alter("r1", modify(name)).new_settings)
                               /\ (AlterError("r1", reset) = NoError
                                     /\ LoadedValue(old, name, Len(old)) # DefaultValue(name))
                                    => isSettingChangeable(name, table_metadata.mode)
                          ELSE /\ AlterError("r1", reset) = NoError
                               /\ alter("r1", reset).changed_settings = <<>>
                               /\ alter("r1", reset).new_settings = NormalizeSettings(old)
          /\ ~ListedTwice("r1") =>
                polling["r1"].max
                    = LoadedValue(old, <<"polling_max_timeout_ms">>, Len(old))

\* After an accepted ALTER that named it with the prefix, processing_threads_num
\* is listed without the prefix, and a RESET has given polling_max_timeout_ms
\* its default value in the SETTINGS list and in the engine.
C18_Witness ==
    /\ ddl_result["r1"] = NoError
    /\ polling["r1"].max = DefaultValue(<<"polling_max_timeout_ms">>)
    /\ \E i \in DOMAIN settings_changes["r1"] :
          settings_changes["r1"][i] =
              [name |-> <<"polling_max_timeout_ms">>,
               value |-> DefaultValue(<<"polling_max_timeout_ms">>)]
    /\ table_metadata.processing_threads_num = 1
    /\ ~Listed("r1", <<S3QueuePrefix, "processing_threads_num">>)
    /\ settings_changes["r1"][1].name = <<"processing_threads_num">>
    /\ settings_changes["r1"][1].value = 1

\* C19 as stated: a settings ALTER whose resulting SETTINGS list has the same
\* normalized name twice fails with LOGICAL_ERROR.
C19_DuplicateIsLogicalError ==
    life["r1"] = "running" =>
        \A commands \in AlterInputs :
            LET new == ApplyCommands(NormalizeSettings(settings_changes["r1"]),
                                     normalizeAlterCommands(commands))
                twice == \E i, j \in DOMAIN new : i < j /\ new[i].name = new[j].name
            IN  (isSettingsAlter(commands) /\ twice) =>
                    AlterError("r1", commands).code = "LOGICAL_ERROR"

\* C19, amended: a settings ALTER whose resulting SETTINGS list has the same
\* normalized name twice fails and never with LOGICAL_ERROR: with
\* SUPPORT_IS_DISABLED when checkAlterIsPossible rejects it, and otherwise
\* with BAD_ARGUMENTS naming a setting the list has twice.  No query of the
\* table has failed with LOGICAL_ERROR.
C19_DuplicateIsBadArguments ==
    /\ ddl_result["r1"].code # "LOGICAL_ERROR"
    /\ life["r1"] = "running" =>
        \A commands \in AlterInputs :
            LET new == ApplyCommands(NormalizeSettings(settings_changes["r1"]),
                                     normalizeAlterCommands(commands))
                twice(name) == \E i, j \in DOMAIN new :
                                   i < j /\ new[i].name = name /\ new[j].name = name
                error == AlterError("r1", commands)
            IN  (isSettingsAlter(commands) /\ \E name \in PlainNames : twice(name)) =>
                    IF checkAlterIsPossible("r1", commands) # NoError
                      THEN error.code = "SUPPORT_IS_DISABLED"
                      ELSE /\ error.code = "BAD_ARGUMENTS"
                           /\ twice(error.setting)

\* An ALTER has failed with BAD_ARGUMENTS on a table created with
\* s3queue_polling_max_timeout_ms and polling_max_timeout_ms.
C19_Witness ==
    /\ ddl_result["r1"] = QueryError("BAD_ARGUMENTS", <<"polling_max_timeout_ms">>, 0)
    /\ ListedTwice("r1")

\* C20: the step of an ALTER of polling_max_timeout_ms changes nothing of the
\* cycle that is running (position of the task, claimed files, rows, commit
\* requests, delay, registration, file records), so the cycle goes on as it
\* would have; an accepted ALTER puts its value in the engine at once, and
\* the delay adjustment that follows streamToViews caps the delay at the
\* ceiling of that moment.
C20_AlterDuringStreaming ==
    [][/\ ddl_result'["r1"] # ddl_result["r1"] \/ alter_pc'["r1"] # alter_pc["r1"]
            \/ polling'["r1"] # polling["r1"]
          => /\ UNCHANGED <<pc, scheduled, life, mv_attached, reschedule_ms,
                            dependencies_count, total_rows, rows, iter_pos, inflight,
                            insert_succeeded, requests, successful, exc, hist>>
             /\ UNCHANGED <<registered, processing, processed, failed, retries,
                            watermark, lease, blob, views>>
             /\ ddl_result'["r1"] = NoError
             /\ polling'["r1"].max =
                    LoadedValue(settings_changes'["r1"], <<"polling_max_timeout_ms">>,
                                Len(settings_changes'["r1"]))
             /\ polling'["r1"].min = polling["r1"].min
             /\ polling'["r1"].backoff = polling["r1"].backoff
       /\ (pc["r1"] = "loop" /\ pc'["r1"] = "resched") =>
             /\ reschedule_ms'["r1"] <= polling["r1"].max
             /\ total_rows["r1"] = 0 =>
                   \/ reschedule_ms'["r1"] = polling["r1"].max
                   \/ reschedule_ms'["r1"] = reschedule_ms["r1"] + polling["r1"].backoff
      ]_vars

\* The last ALTER ran while a cycle held a claimed file and raised the ceiling
\* from 1000 to 5000; that file has since been processed, and a later cycle
\* without rows has raised the delay above the old ceiling.
C20_Witness ==
    /\ alter_pc["r1"] \in {"exec", "commit", "multi", "release"}
    /\ polling["r1"].max = 5000
    /\ pc["r1"] = "resched"
    /\ reschedule_ms["r1"] = 3000
    /\ \E p \in Paths : IsProcessed(p)

\* C21 as stated: once shutdown has been requested, a tick that starts returns
\* at once without registering, claiming or committing, no step of a tick
\* schedules the task, and after shutdown() has returned the task is neither
\* running nor scheduled, for ever.
C21_NoRescheduleAfterShutdownRequest ==
    [][\A r \in Replicas :
          /\ (shutdown_called(r) /\ pc[r] = "idle") =>
                /\ pc'[r] = "idle"
                /\ registered'[r] => registered[r]
                /\ UNCHANGED <<processing, processed, failed, retries, watermark,
                               lease, blob>>
          /\ shutdown_called(r) => (scheduled'[r] => scheduled[r])
          /\ life[r] = "stopped" => life'[r] = "stopped"
          /\ life'[r] = "stopped" => (pc'[r] = "idle" /\ ~scheduled'[r])]_vars

\* C21, amended: once shutdown has been requested, a tick that starts returns
\* at once without registering, claiming or committing, and a tick that reads
\* shutdown_called at line 530 does not schedule the task; only a tick that
\* had passed line 530 before the request still schedules it (and it alone
\* may unregister).  After shutdown() has returned the task is neither running
\* nor scheduled, for ever.
C21_ShutdownStopsTicks ==
    [][\A r \in Replicas :
          /\ (shutdown_called(r) /\ pc[r] = "idle") =>
                /\ pc'[r] = "idle"
                /\ registered'[r] => registered[r]
                /\ UNCHANGED <<processing, processed, failed, retries, watermark,
                               lease, blob>>
          /\ (shutdown_called(r) /\ pc[r] = "resched") =>
                /\ pc'[r] \in {"resched", "idle"}
                /\ scheduled'[r] = scheduled[r]
                /\ registered'[r] = registered[r]
          /\ (shutdown_called(r) /\ scheduled'[r] /\ ~scheduled[r]) =>
                pc[r] = "schedule" /\ pc'[r] = "idle"
          /\ life[r] = "stopped" => life'[r] = "stopped"
          /\ life'[r] = "stopped" => (pc'[r] = "idle" /\ ~scheduled'[r])]_vars

\* Shutdown was requested while a tick that had processed files stood between
\* line 530 and line 533: the tick is about to schedule the task.
C21_Witness ==
    /\ life["r1"] = "stopping"
    /\ pc["r1"] = "schedule"
    /\ ~scheduled["r1"]
    /\ \E p \in Paths : IsProcessed(p)

\* C22: shutdown() does not get past deactivate() while a tick is running;
\* it unregisters the replica and releases the queue-metadata handle in a step
\* taken when no tick runs.  A tick is at a position other than idle only
\* while the storage holds the handle, and once the handle is released nothing
\* is registered, claimed, committed or unregistered.
C22_NoUseAfterRelease ==
    [][\A r \in Replicas :
          /\ pc[r] # "idle" => files_metadata(r)
          /\ (life[r] = "stopping" /\ pc[r] # "idle") => life'[r] = "stopping"
          /\ (life[r] = "stopping" /\ life'[r] = "stopped") =>
                /\ pc[r] = "idle" /\ pc'[r] = "idle"
                /\ ~registered'[r]
                /\ ~files_metadata(r)'
          /\ ~files_metadata(r) =>
                /\ pc'[r] = "idle"
                /\ life[r] = "stopped" => UNCHANGED keeper_vars]_vars

\* shutdown() waits in deactivate() while the tick, still registered, is about
\* to send the transaction of its commit.
C22_Witness ==
    /\ life["r1"] = "stopping"
    /\ pc["r1"] = "multi"
    /\ registered["r1"]
    /\ requests["r1"] # <<>>

\* C23 as stated: after every commit cycle, whether the insert succeeded or
\* failed and whether or not the commit itself threw, the finished buckets are
\* released before the next iteration or before the exception leaves
\* streamToViews.
C23_ReleasedAfterEveryCommit ==
    [][\A r \in Replicas :
          (pc[r] \in {"multi", "release"} /\ pc'[r] \in {"loop", "resched"}) =>
              lease' = ReleasedLease(r)]_vars

\* C23: whenever commit returns, after a successful insert or inside the
\* catch block of a failed one, the finished buckets are released before the
\* next turn of the loop or before the exception is rethrown, and the loop is
\* entered again only that way.  When commit itself throws (fail point or
\* failed transaction) the exception leaves streamToViews without the release:
\* the buckets stay as they were.
C23_ReleasedWhenCommitReturns ==
    [][\A r \in Replicas :
          /\ (pc[r] = "release" /\ pc'[r] # "release") =>
                /\ pc'[r] \in {"loop", "resched"}
                /\ lease' = ReleasedLease(r)
          /\ (pc[r] = "multi" /\ pc'[r] = "resched") =>
                /\ exc'[r] \in {"failpoint", "multi"}
                /\ UNCHANGED lease
          /\ (pc[r] # "loop" /\ pc'[r] = "loop") => pc[r] \in {"stream", "release"}]_vars

\* In ordered mode the insert failed, its commit went through, and the bucket
\* the replica had drained is free when the exception has left streamToViews.
C23_Witness ==
    /\ table_metadata.mode = "ordered"
    /\ pc["r1"] = "resched"
    /\ exc["r1"] = "insert"
    /\ hist["r1"].multis = 1
    /\ registered["r1"]
    /\ lease = None

\* C24: when the requests gathered from all the workers are empty, commit
\* returns at once: no blob is deleted, no transaction is issued, the fail
\* point is not evaluated (commit does not throw even when it is enabled) and
\* no worker finalizes; the coordinator and the blob store are unchanged.
\* commit returns that early only when the requests are empty.
C24_NothingToCommit ==
    [][\A r \in Replicas :
          LET reqs == PrepareCommitRequests(inflight[r], 0, insert_succeeded[r]) IN
          /\ (pc[r] = "commit" /\ pc'[r] # "commit" /\ reqs = <<>>) =>
                /\ pc'[r] = "release"
                /\ requests'[r] = <<>>
                /\ UNCHANGED keeper_vars
                /\ UNCHANGED <<hist, exc, failpoint>>
          /\ (pc[r] = "commit" /\ pc'[r] = "release") => reqs = <<>>
          /\ (pc[r] = "release" /\ requests[r] = <<>> /\ pc'[r] # "release") =>
                /\ hist[r].multis = 0
                /\ hist[r].finalized = {}
                /\ exc'[r] \in {None, "insert"}]_vars

\* With the fail point enabled and after_processing = delete, a commit with
\* nothing to commit has returned: the iteration met a file it could not claim.
C24_Witness ==
    /\ pc["r1"] = "release"
    /\ requests["r1"] = <<>>
    /\ inflight["r1"] = {}
    /\ iter_pos["r1"] > 0
    /\ failpoint
    /\ table_metadata.after_processing = "delete"

\* C25: the sources finalize exactly in the step in which the multi
\* transaction of the commit succeeds: all the sources of the cycle at once,
\* with the transaction applied to the coordinator in that same step, and with
\* the insert_succeeded value and the exception that the requests of the
\* transaction were prepared with.  A commit that throws, or that has nothing
\* to commit, finalizes no source.
C25_FinalizeAfterSuccessfulMulti ==
    [][\A r \in Replicas :
          LET applied == ApplyRequests(KeeperFiles, r, requests[r]) IN
          /\ hist'[r].finalized \notin {hist[r].finalized, {}} =>
                /\ pc[r] = "multi" /\ pc'[r] = "release"
          /\ (pc[r] = "multi" /\ pc'[r] = "release") =>
                /\ hist'[r].finalized = FinalizedSources
                /\ hist'[r].multis = 1
                /\ MultiValid(r, requests[r])
                /\ KeeperFiles' = applied
                /\ requests[r] =
                       PrepareCommitRequests(inflight[r], 0, insert_succeeded[r])
                /\ insert_succeeded'[r] = insert_succeeded[r]
                /\ exc'[r] = exc[r]
                /\ insert_succeeded[r] <=> exc[r] = None
          /\ (pc[r] \in {"commit", "multi"} /\ pc'[r] \in {"multi", "release"}) =>
                UNCHANGED <<insert_succeeded, exc, inflight>>
          /\ (pc[r] = "multi" /\ pc'[r] = "resched") => hist'[r].finalized = {}
          /\ (pc[r] = "commit" /\ pc'[r] = "release") => hist'[r].finalized = {}]_vars

\* The insert failed, the transaction that records the failure succeeded and
\* both sources have finalized with insert_succeeded = false.
C25_Witness ==
    /\ pc["r1"] = "release"
    /\ hist["r1"].finalized = FinalizedSources
    /\ Cardinality(FinalizedSources) = NumWorkers
    /\ ~insert_succeeded["r1"]
    /\ exc["r1"] = "insert"
    /\ \E p \in Paths : retries[p] > 0 \/ p \in failed

\* C26: a tick that found downstream consumers registers the replica before
\* it streams: streamToViews is entered only in the step in which registerIfNot
\* returns, so the replica is registered while the iterator is created, the
\* workers claim files and the commit runs; files are claimed only inside the
\* insert iteration; and when the registration throws the tick goes to its
\* end without streaming and without having claimed anything.
C26_RegisteredBeforeStreaming ==
    /\ [](\A r \in Replicas :
            /\ pc[r] \in {"stream", "loop", "exec", "commit", "multi", "release"} =>
                  registered[r] /\ dependencies_count[r] > 0
            /\ exc[r] = "register" => pc[r] = "resched" /\ inflight[r] = {})
    /\ [][\A r \in Replicas :
            /\ (pc[r] # "register" /\ pc'[r] = "register") =>
                  pc[r] = "idle" /\ dependencies_count'[r] > 0
            /\ (pc[r] # "stream" /\ pc'[r] = "stream") =>
                  pc[r] = "register" /\ registered'[r]
            /\ (pc[r] = "register" /\ pc'[r] # "register") =>
                  \/ pc'[r] = "stream" /\ registered'[r]
                  \/ /\ pc'[r] = "resched"
                     /\ exc'[r] = "register"
                     /\ UNCHANGED keeper_vars
            /\ (pc[r] = "resched" /\ pc'[r] # "resched") => pc'[r] = "idle"
            /\ {f \in processing' : f.owner = r} # {f \in processing : f.owner = r} =>
                  pc[r] \in {"exec", "multi"}]_vars

\* The first tick with a view attached failed to register: it is at its end,
\* the replica is not registered and no file has been claimed.
C26_Witness ==
    /\ pc["r1"] = "resched"
    /\ exc["r1"] = "register"
    /\ dependencies_count["r1"] > 0
    /\ ~registered["r1"]
    /\ processing = {}

\* C27: a new insert iteration starts only from the loop test, and only when
\* shutdown has not been requested and the iterator has more files; otherwise
\* streamToViews returns.  The iteration starts with nothing in flight, its
\* files are read by the workers 0..N-1 (N = processing_threads_num) from the
\* one iterator, which hands out no file twice, and it ends in exactly one
\* call of commit: the iteration is left only into commit, commit is entered
\* only from the iteration, and after commit comes the loop test or the end
\* of the tick, also when shutdown is requested in the middle of the iteration.
C27_IterationsAndCommits ==
    /\ [](\A r \in Replicas :
            pc[r] \in {"exec", "commit", "multi", "release"} =>
                /\ \A f \in inflight[r] :
                      /\ f.proc \in 0 .. (table_metadata.processing_threads_num - 1)
                      /\ f.path <= iter_pos[r]
                /\ \A f, g \in inflight[r] : f.path = g.path => f = g)
    /\ [][\A r \in Replicas :
            /\ (pc[r] # "exec" /\ pc'[r] = "exec") =>
                  /\ pc[r] = "loop"
                  /\ ~shutdown_called(r)
                  /\ ~isFinished(r)
                  /\ inflight'[r] = {} /\ rows'[r] = 0 /\ hist'[r] = NoHist
            /\ (pc[r] = "loop" /\ pc'[r] # "loop") =>
                  IF ~shutdown_called(r) /\ ~isFinished(r)
                    THEN pc'[r] = "exec"
                    ELSE pc'[r] = "resched" /\ exc'[r] = None
            /\ (pc[r] = "exec" /\ pc'[r] # "exec") => pc'[r] = "commit"
            /\ (pc[r] # "commit" /\ pc'[r] = "commit") => pc[r] = "exec"
            /\ (pc[r] = "commit" /\ pc'[r] # "commit") => pc'[r] \in {"multi", "release"}
            /\ (pc[r] = "multi" /\ pc'[r] # "multi") => pc'[r] \in {"release", "resched"}
            /\ (pc[r] = "release" /\ pc'[r] # "release") => pc'[r] \in {"loop", "resched"}]_vars

\* Shutdown was requested in the middle of an iteration whose two workers have
\* each read a file: the iteration has still reached its commit.
C27_Witness ==
    /\ life["r1"] = "stopping"
    /\ pc["r1"] = "commit"
    /\ \E f, g \in inflight["r1"] : f.proc = 0 /\ g.proc = 1

C30_DelayUnchangedOnThrowOrSkip ==
    [][\A r \in Replicas :
          /\ (pc[r] \notin {"resched", "loop"} /\ pc'[r] = "resched") =>
                /\ UNCHANGED reschedule_ms
                /\ \/ pc[r] = "idle" /\ dependencies_count'[r] = 0
                   \/ pc[r] \in {"register", "multi", "release"} /\ exc'[r] # None
          /\ (pc[r] = "release" /\ exc[r] # None /\ pc'[r] # "release") =>
                pc'[r] = "resched" /\ UNCHANGED reschedule_ms
          /\ (pc[r] = "loop" /\ pc'[r] = "resched") => exc'[r] = None
          /\ reschedule_ms'[r] # reschedule_ms[r] =>
                pc[r] = "loop" /\ pc'[r] = "resched"]_vars

\* The second insert of a tick has failed after the first one processed rows:
\* its commit has returned and the exception is about to leave streamToViews,
\* with a delay that an earlier idle tick had increased.
C30_Witness ==
    /\ pc["r1"] = "release"
    /\ exc["r1"] = "insert"
    /\ total_rows["r1"] > 0
    /\ reschedule_ms["r1"] > polling["r1"].min

\* C28: the polling settings, the commit thresholds, the list batch size and
\* the hash-ring flag are written by ALTER and read by the delay adjustment of
\* the task, by createSource, by createFileIterator and by getSettings only
\* while the thread holds the engine's mutex, so no two threads are at such an
\* access at once.  A source and an iterator hold the values copied under the
\* mutex when they were made: no write of an ALTER changes the copies of a
\* source or an iterator that exists.
C28_FieldsUnderMutex ==
    /\ [](\A r \in Replicas :
            /\ \A t \in Threads :
                  thread_pc[r][t] \in {"alter_write", "createFileIterator",
                                       "createSource", "adjust", "getSettings"}
                      <=> mutex[r] = t
            /\ Len(iterator_copy[r]) <= 1
            /\ Len(commit_settings_copy[r]) <= table_metadata.processing_threads_num)
    /\ [][\A r \in Replicas :
            /\ <<polling[r], EngineSettings(r)>>' # <<polling[r], EngineSettings(r)>> =>
                  /\ mutex[r] = "alter"
                  /\ UNCHANGED <<commit_settings_copy, iterator_copy, reschedule_ms>>
            /\ reschedule_ms'[r] # reschedule_ms[r] => mutex[r] = "task"
            /\ commit_settings_copy'[r] # commit_settings_copy[r] =>
                  /\ mutex[r] = "task" \/ commit_settings_copy'[r] = <<>>
                  /\ commit_settings_copy'[r] \in
                         {<<>>, Append(commit_settings_copy[r], commit_settings[r])}
            /\ iterator_copy'[r] # iterator_copy[r] =>
                  /\ mutex[r] = "task" \/ iterator_copy'[r] = <<>>
                  /\ iterator_copy'[r] \in
                         {<<>>, <<[list_objects_batch_size |->
                                       list_objects_batch_size[r],
                                   enable_hash_ring_filtering |->
                                       enable_hash_ring_filtering[r]]>>}]_vars

\* An ALTER that ran to its end after the sources and the iterator of the
\* task were made has changed the thresholds, the batch size and the flag of
\* the engine; the source and the iterator still hold the values they copied.
C28_Witness ==
    /\ thread_pc["r1"]["task"] = "sources"
    /\ thread_pc["r1"]["alter"] = "idle"
    /\ Len(commit_settings_copy["r1"]) = NumWorkers
    /\ \A i \in DOMAIN commit_settings_copy["r1"] :
          commit_settings_copy["r1"][i] # commit_settings["r1"]
    /\ iterator_copy["r1"] # <<>>
    /\ iterator_copy["r1"][1].list_objects_batch_size # list_objects_batch_size["r1"]
    /\ iterator_copy["r1"][1].enable_hash_ring_filtering
           # enable_hash_ring_filtering["r1"]

C32_RejectedAlterChangesNothing ==
    [][\A r \in Replicas :
          ddl_result'[r].code \notin {"OK", "NONE"} =>
              /\ UNCHANGED <<table_metadata, settings_changes>>
              /\ UNCHANGED <<polling, commit_settings, list_objects_batch_size,
                             enable_hash_ring_filtering, reschedule_ms>>
              /\ UNCHANGED <<registered, processing, processed, failed>>]_vars

\* An ALTER of two commands has been rejected with SUPPORT_IS_DISABLED for the
\* setting its second command resets; its first command modifies
\* polling_max_timeout_ms, which is changeable, to a value the table does not
\* have, and the table still has the old one.
C32_Witness ==
    /\ ddl_result["r1"].code = "SUPPORT_IS_DISABLED"
    /\ \E commands \in AlterInputs :
          /\ Len(commands) = 2
          /\ commands[1].type = "MODIFY_SETTING"
          /\ commands[1].settings_changes[1].name = <<"polling_max_timeout_ms">>
          /\ commands[1].settings_changes[1].value # polling["r1"].max
          /\ commands[2].type = "RESET_SETTING"
          /\ AlterError("r1", commands) = ddl_result["r1"]
          /\ ddl_result["r1"].setting \in commands[2].settings_resets

\* C33 as stated: an ALTER of several settings kept in the engine is atomic
\* for the background task: the task never takes the mutex, to compute its
\* delay or to copy the settings for a source or an iterator, while some of
\* the changes of a running ALTER are assigned and others are not.
C33_AlterAtomicForTask ==
    \A r \in Replicas :
        LET frame == alter_frame[r]
            old == settings_changes[r]
            pending == SettingNames(frame.changed_settings)
            assigned == {n \in SettingNames(frame.new_settings) \ pending :
                            LoadedValue(frame.new_settings, n, Len(frame.new_settings))
                                # LoadedValue(old, n, Len(old))}
        IN  mutex[r] = "task" => ~(pending # {} /\ assigned # {})

\* C33: alter takes the mutex once for each changed setting.  Each turn of
\* its loop assigns the one setting at the head of changed_settings while the
\* ALTER thread holds the mutex, so no thread reads a field while it is
\* written; between two turns the mutex is free, and the task can compute its
\* delay or copy the settings with the remaining changes still to come.
C33_OneLockPerChange ==
    /\ [](\A r \in Replicas :
            mutex[r] = "alter" <=> thread_pc[r]["alter"] = "alter_write")
    /\ [][\A r \in Replicas :
            /\ <<polling[r], EngineSettings(r)>>' # <<polling[r], EngineSettings(r)>> =>
                  /\ mutex[r] = "alter" /\ mutex'[r] = None
                  /\ alter_frame[r].changed_settings # <<>>
                  /\ alter_frame'[r].changed_settings =
                         Tail(alter_frame[r].changed_settings)
                  /\ polling'[r] = AlterLocalSettings(polling[r],
                         <<Head(alter_frame[r].changed_settings)>>)
                  /\ EngineSettings(r)' = AlterEngineSettings(EngineSettings(r),
                         <<Head(alter_frame[r].changed_settings)>>)
            /\ reschedule_ms'[r] # reschedule_ms[r] =>
                  /\ mutex[r] = "task"
                  /\ \E processed_rows \in BOOLEAN :
                        reschedule_ms'[r] = NextInterval(r, processed_rows)]_vars

\* An ALTER sets polling_max_timeout_ms = 5000 and polling_backoff_ms = 4000
\* on a table that had 1000 and 1000.  The task has adjusted its delay between
\* the two assignments: 2000 = min(5000, 1000 + 1000), a delay that neither
\* the old nor the new settings give.
C33_Witness ==
    /\ reschedule_ms["r1"] = 2000
    /\ thread_pc["r1"]["task"] = "idle"
    /\ thread_pc["r1"]["alter"] = "alter_loop"
    /\ polling["r1"].max = 5000
    /\ polling["r1"].backoff = 1000
    /\ alter_frame["r1"].changed_settings # <<>>

\* C34: commit removes a blob only if after_processing is delete when it
\* runs and the path is one of the successful objects that the sources of
\* this cycle reported.  A step removes a blob only as the commit of a replica
\* that holds the file in flight and has it among its successful objects, with
\* after_processing = delete; no step puts a blob back; with after_processing
\* = keep, or with no successful object, a commit removes nothing.
C34_DeleteOnlySuccessfulObjects ==
    [][/\ \A p \in Paths :
             blob'[p] # blob[p] =>
                 /\ blob[p] /\ ~blob'[p]
                 /\ table_metadata.after_processing = "delete"
                 /\ \E r \in Replicas :
                       /\ pc[r] = "commit" /\ pc'[r] = "multi"
                       /\ p \in {f.path : f \in inflight[r]}
                       /\ p \in SuccessfulObjects(
                              PrepareCommitRequests(inflight[r], 0, insert_succeeded[r]))
       /\ \A r \in Replicas :
             (pc[r] = "commit" /\ pc'[r] # "commit"
                 /\ (table_metadata.after_processing = "keep" \/ successful'[r] = {})) =>
                    blob' = blob]_vars

\* A commit with after_processing = delete has removed the successful object
\* of its cycle and kept the blob of the file that failed in the same cycle.
C34_Witness ==
    /\ pc["r1"] = "multi"
    /\ table_metadata.after_processing = "delete"
    /\ \E f \in inflight["r1"] : f.path \in successful["r1"] /\ ~blob[f.path]
    /\ \E f \in inflight["r1"] : f.path \notin successful["r1"] /\ blob[f.path]

\* C35: mv_attached is true exactly while a tick is inside its streaming
\* branch (registration, streaming, commit), a branch entered only with a
\* dependency count above zero; it is false while no tick runs and in the
\* rescheduling part of a tick, whether the branch was left normally or by an
\* exception.
C35_FlagOnlyInsideStreamingBranch ==
    \A r \in Replicas :
        /\ mv_attached[r] <=>
              pc[r] \in {"register", "stream", "loop", "exec", "commit", "multi", "release"}
        /\ mv_attached[r] => dependencies_count[r] > 0
        /\ pc[r] \in {"idle", "resched", "schedule"} => ~mv_attached[r]

\* The registration of a tick threw while a view is attached: the tick is at
\* its rescheduling and the flag is false again.
C35_Witness ==
    /\ pc["r1"] = "resched"
    /\ exc["r1"] = "register"
    /\ dependencies_count["r1"] > 0
    /\ GetDependencies(views["r1"]) > 0
    /\ ~mv_attached["r1"]

\* ------------------------------------------------------------ idle polling
\* One started table over an empty bucket, its materialized view attached for
\* good: every tick streams, finds nothing to read, commits nothing and backs
\* off.  polling_min_timeout_ms <= polling_max_timeout_ms and
\* polling_backoff_ms > 0 in each of the settings; nothing throws, nobody
\* shuts the table down.  Another view comes and goes and the coordinator
\* session may expire.
InitBackoff ==
    /\ \E polling_settings \in {[min |-> 1000, max |-> 1000, backoff |-> 1000],
                                [min |-> 1000, max |-> 3000, backoff |-> 1000],
                                [min |-> 1000, max |-> 5000, backoff |-> 3000],
                                [min |-> 1000, max |-> 7000, backoff |-> 3000]} :
          /\ InitEngine(polling_settings)
          /\ InitTable(CreateArgs, <<"/", "*">>, CreateSettings(polling_settings), NoError)
    /\ table_metadata \in [mode : Modes, after_processing : {"keep"},
                            loading_retries : {MaxRetries},
                            processing_threads_num : {NumWorkers}]
    /\ registered = [r \in Replicas |-> FALSE]
    /\ processing = {}
    /\ processed = {}
    /\ failed = {}
    /\ retries = [p \in Paths |-> 0]
    /\ watermark = 0
    /\ lease = None
    /\ blob = [p \in Paths |-> FALSE]
    /\ views = [r \in Replicas |-> {"mv"}]
    /\ failpoint = FALSE

NextBackoff ==
    \/ Startup("r1")
    \/ TickStart("r1")
    \/ RegisterOk("r1")
    \/ StreamBegin("r1")
    \/ IterationBegin("r1")
    \/ \E i \in Processors : NextFile("r1", i, TRUE)
    \/ PipelineDone("r1")
    \/ CommitPrepare("r1")
    \/ AfterCommit("r1")
    \/ StreamReturn("r1")
    \/ TickEnd("r1")
    \/ AttachView("r1", "view")
    \/ DetachView("r1", "view")
    \/ SessionExpired("r1")

\* The schedule pool runs a scheduled task and the thread of a tick goes on
\* to its next statement (weak fairness); a pipeline does not complete for
\* ever without its sources asking the iterator for the next file (strong
\* fairness: a source returns only when the iterator has nothing for it).
SpecBackoff ==
    /\ InitBackoff
    /\ [][NextBackoff]_vars
    /\ WF_vars(Startup("r1") \/ TickStart("r1") \/ RegisterOk("r1")
                  \/ StreamBegin("r1") \/ IterationBegin("r1") \/ PipelineDone("r1")
                  \/ CommitPrepare("r1") \/ AfterCommit("r1") \/ StreamReturn("r1")
                  \/ TickEnd("r1"))
    /\ SF_vars(\E i \in Processors : NextFile("r1", i, TRUE))

\* C36: with consumers attached, no rows, no exception, polling_backoff_ms >
\* 0, polling_min_timeout_ms <= polling_max_timeout_ms and no shutdown, the
\* reschedule delay eventually equals polling_max_timeout_ms and stays there;
\* with polling_max_timeout_ms > 5000 a tick eventually ends by unregistering
\* the replica (and does so again and again: ticks end infinitely often, and
\* with this setting by unregistering); with polling_max_timeout_ms <= 5000
\* no end of a tick changes the registration.
C36_BackoffReachesMax ==
    /\ <>[](reschedule_ms["r1"] = polling["r1"].max)
    /\ []<><<(pc["r1"] = "resched") /\ (pc'["r1"] = "idle")
                /\ (polling["r1"].max > UnregisterThreshold =>
                       (reschedule_ms["r1"] > UnregisterThreshold
                           /\ ~registered'["r1"]))>>_vars
    /\ [][(pc["r1"] = "resched" /\ pc'["r1"] = "idle"
              /\ polling["r1"].max <= UnregisterThreshold) =>
                 registered'["r1"] = registered["r1"]]_vars

\* polling_max_timeout_ms = 7000: after ticks that read nothing the delay has
\* grown from 1000 to 7000 and the tick that just ended has unregistered the
\* replica while its view is still attached.
C36_Witness ==
    /\ pc["r1"] = "idle"
    /\ scheduled["r1"]
    /\ polling["r1"].max > UnregisterThreshold
    /\ reschedule_ms["r1"] = polling["r1"].max
    /\ reschedule_ms["r1"] # polling["r1"].min
    /\ ~registered["r1"]
    /\ "mv" \in views["r1"]

=============================================================================
